---- MODULE Spec2Model ----
(***************************************************************************)
(* Model of the intent-routing and per-issue analysis pipeline of the      *)
(* Bangalore Buzz orchestrator (src/orchestrator.py and the three agent    *)
(* modules).  One request is followed from process_request's entry to the  *)
(* record it returns.  Every external collaborator (generation service,    *)
(* geocoder, roster file, image file) answers nondeterministically.        *)
(*                                                                         *)
(* Python values are records [t, v, n]: t is the Python type, v the text   *)
(* of a str (or the str() of None / a bool), n the number of a float or    *)
(* bool.  Coordinates are kept in arc-seconds (3600 * decimal degrees) so  *)
(* that deg + min/60 + sec/3600 stays an integer.                          *)
(***************************************************************************)
EXTENDS Integers, Sequences, FiniteSets, TLC

\* ------------------------------------------------------------------------
\* Python values
\* ------------------------------------------------------------------------
PyNone == [t |-> "NoneType", v |-> "None", n |-> 0]

PyStr(s) == [t |-> "str", v |-> s, n |-> 0]

PyBool(b) == [t |-> "bool", v |-> IF b THEN "True" ELSE "False", n |-> IF b THEN 1 ELSE 0]

PyFloat(k) == [t |-> "float", v |-> "", n |-> k]

\* Python truth value testing (bool(x)).
Truthy(x) ==
    CASE x.t = "NoneType" -> FALSE
      [] x.t = "str"      -> x.v # ""
      [] x.t = "bool"     -> x.n = 1
      [] x.t = "float"    -> x.n # 0
      [] OTHER            -> TRUE

\* str(x), as an f-string renders it.
Str(x) == IF x.t = "float" THEN ToString(x.n) ELSE x.v

\* dict.get(key, default): the default is used only when the key is absent.
DictGet(d, key, default) == IF key \in DOMAIN d THEN d[key] ELSE default

\* The empty dict.
EmptyDict == [k \in {} |-> PyNone]

\* ------------------------------------------------------------------------
\* Exceptions.  Every exception the modelled code can meet derives from
\* Exception; KeyboardInterrupt / SystemExit are not failures of a step.
\* ------------------------------------------------------------------------
NoExc == "none"

ExceptionClasses ==
    {"ImportError", "ValueError", "FileNotFoundError", "ClientError",
     "TypeError", "AttributeError", "UnboundLocalError", "JSONDecodeError",
     "IndexError", "OSError", "re.error"}

\* JSONDecodeError is a subclass of ValueError, FileNotFoundError of OSError.
IsSubclass(exc, cls) ==
    \/ exc = cls
    \/ cls = "Exception" /\ exc \in ExceptionClasses
    \/ cls = "ValueError" /\ exc = "JSONDecodeError"
    \/ cls = "OSError" /\ exc = "FileNotFoundError"

\* ------------------------------------------------------------------------
\* Inputs of a request
\* ------------------------------------------------------------------------
Queries == {"garbage piled up near my house", "what events are happening this weekend"}

\* image_path: None, the empty string, or the path of a saved upload.
UploadPath == PyStr("uploads/photo.jpg")

ImagePaths == {PyNone, PyStr(""), UploadPath}

\* EXIF GPS tag values: a degree/minute/second triple, or a truncated
\* (malformed) value.  A tag is a sequence of length 0 (tag absent) or 1.
LatTags == {<<>>, << <<0, 0, 0>> >>, << <<12, 58, 19>> >>, << <<12>> >>}

LonTags == {<<>>, << <<0, 0, 0>> >>, << <<77, 38, 28>> >>}

RefTags == {<<>>, << <<"N", "E">> >>, << <<"S", "W">> >>, << <<"S", "E">> >>, << <<"N", "W">> >>}

Tag(name, opt, val) == IF opt = <<>> THEN EmptyDict ELSE (name :> val)

\* gps_info as get_geolocation builds it: tag name -> value.
GpsInfos ==
    { Tag("GPSLatitude", la, la[1]) @@ Tag("GPSLongitude", lo, lo[1])
        @@ Tag("GPSLatitudeRef", r, r[1][1]) @@ Tag("GPSLongitudeRef", r, r[1][2])
      : la \in LatTags, lo \in LonTags, r \in RefTags }

\* The file behind image_path: whether PIL can open it, whether it has any
\* EXIF block, and the GPS sub-block (empty when there is none).
ImageFiles ==
    {[openable |-> FALSE, exif |-> FALSE, gps |-> EmptyDict],
     [openable |-> TRUE, exif |-> FALSE, gps |-> EmptyDict]}
    \cup {[openable |-> TRUE, exif |-> TRUE, gps |-> g] : g \in GpsInfos}

NoFile == [openable |-> FALSE, exif |-> FALSE, gps |-> EmptyDict]

\* ------------------------------------------------------------------------
\* Geolocation Extractor (identical in the three agent modules)
\* ------------------------------------------------------------------------
NoCoordinate == <<PyNone, PyNone>>

\* deg + min/60 + sec/3600, in arc-seconds.
DmsToDecimal(dms) == dms[1] * 3600 + dms[2] * 60 + dms[3]

\* GeolocationFromTags with one test for both axes: both values negated
\* when the latitude reference is S.
GeolocationFromTags_OneHemisphereTest(gps) ==
    LET lat_data == DictGet(gps, "GPSLatitude", <<>>)
        lon_data == DictGet(gps, "GPSLongitude", <<>>)
    IN  IF lat_data # <<>> /\ lon_data # <<>>
        THEN IF Len(lat_data) < 3 \/ Len(lon_data) < 3
             THEN [exc |-> "IndexError", val |-> NoCoordinate]
             ELSE LET lat_deg == DmsToDecimal(lat_data)
                      lon_deg == DmsToDecimal(lon_data)
                      lat == IF DictGet(gps, "GPSLatitudeRef", "") = "S" THEN -lat_deg ELSE lat_deg
                      lon == IF DictGet(gps, "GPSLatitudeRef", "") = "S" THEN -lon_deg ELSE lon_deg
                  IN  [exc |-> NoExc, val |-> <<PyFloat(lat), PyFloat(lon)>>]
        ELSE [exc |-> NoExc, val |-> NoCoordinate]

\* The body of the try block once gps_info has been collected: the pair it
\* returns, or the exception a truncated tag raises inside the try.
GeolocationFromTags(gps) ==
    LET lat_data == DictGet(gps, "GPSLatitude", <<>>)
        lon_data == DictGet(gps, "GPSLongitude", <<>>)
    IN  IF lat_data # <<>> /\ lon_data # <<>>
        THEN IF Len(lat_data) < 3 \/ Len(lon_data) < 3
             THEN [exc |-> "IndexError", val |-> NoCoordinate]
             ELSE LET lat_deg == DmsToDecimal(lat_data)
                      lon_deg == DmsToDecimal(lon_data)
                      lat == IF DictGet(gps, "GPSLatitudeRef", "") = "S" THEN -lat_deg ELSE lat_deg
                      lon == IF DictGet(gps, "GPSLongitudeRef", "") = "W" THEN -lon_deg ELSE lon_deg
                  IN  [exc |-> NoExc, val |-> <<PyFloat(lat), PyFloat(lon)>>]
        ELSE [exc |-> NoExc, val |-> NoCoordinate]

\* get_geolocation without its except clause answering for a truncated
\* tag: the degrees alone are returned.
get_geolocation_DegreesOnly(file) ==
    IF ~file.openable THEN NoCoordinate
    ELSE IF ~file.exif THEN NoCoordinate
    ELSE IF GeolocationFromTags(file.gps).exc # NoExc
    THEN <<PyFloat(file.gps["GPSLatitude"][1] * 3600), PyFloat(file.gps["GPSLongitude"][1] * 3600)>>
    ELSE GeolocationFromTags(file.gps).val

\* Image.open failing, an empty EXIF block and any exception in the body all
\* give (None, None).
get_geolocation(file) ==
    IF ~file.openable THEN NoCoordinate
    ELSE IF ~file.exif THEN NoCoordinate
    ELSE IF GeolocationFromTags(file.gps).exc # NoExc THEN NoCoordinate
    ELSE GeolocationFromTags(file.gps).val

\* ------------------------------------------------------------------------
\* Text: the names that occur as areas, wards and divisions, spelled out so
\* that case-insensitive substring matching is computed, not assumed.
\* ------------------------------------------------------------------------
TrashFallbackArea == "HSR Layout"

Chars(s) ==
    CASE s = "HSR Layout" -> <<"H", "S", "R", " ", "L", "a", "y", "o", "u", "t">>
      [] s = "hsr"        -> <<"h", "s", "r">>
      [] s = "BTM Layout" -> <<"B", "T", "M", " ", "L", "a", "y", "o", "u", "t">>
      [] s = "BTM"        -> <<"B", "T", "M">>
      [] s = "Layout"     -> <<"L", "a", "y", "o", "u", "t">>
      [] s = "Whitefield" -> <<"W", "h", "i", "t", "e", "f", "i", "e", "l", "d">>
      [] s = "HSR (Layout)" ->
            <<"H", "S", "R", " ", "(", "L", "a", "y", "o", "u", "t", ")">>
      [] s = "HSR ("      -> <<"H", "S", "R", " ", "(">>
      [] s = ""           -> <<>>

LowerChar(c) ==
    CASE c = "H" -> "h" [] c = "S" -> "s" [] c = "R" -> "r" [] c = "L" -> "l"
      [] c = "B" -> "b" [] c = "T" -> "t" [] c = "M" -> "m" [] c = "W" -> "w"
      [] OTHER -> c

LowerSeq(cs) == [i \in 1..Len(cs) |-> LowerChar(cs[i])]

\* The character sequence p occurs in h.
Occurs(h, p) ==
    \E i \in 1..(Len(h) + 1) :
        /\ i + Len(p) - 1 <= Len(h)
        /\ SubSeq(h, i, i + Len(p) - 1) = p

\* str.contains is called with its default regex=True, so the pattern is
\* compiled by re.  Of the metacharacters only grouping parentheses are
\* modelled: re.compile fails on unbalanced ones.
ReCompiles(pat) ==
    LET p == Chars(pat)
        Depth(i) == Cardinality({j \in 1..i : p[j] = "("})
                        - Cardinality({j \in 1..i : p[j] = ")"})
    IN  /\ \A i \in 0..Len(p) : Depth(i) >= 0
        /\ Depth(Len(p)) = 0

\* What a compiled pattern of literals and groups matches: its literals in
\* order, the parentheses standing for no character.
RegexLiteral(p) ==
    LET NotParen(c) == c \notin {"(", ")"}
    IN  SelectSeq(p, NotParen)

\* Series.str.contains(pat, case=False) on one cell: re.search of pat in
\* hay, ignoring case.
Contains(hay, pat) ==
    Occurs(LowerSeq(Chars(hay)), LowerSeq(RegexLiteral(Chars(pat))))

\* ------------------------------------------------------------------------
\* Roster (bbmp.csv / bescom.csv after column normalisation)
\* ------------------------------------------------------------------------
MaxRosterRows == 2

\* A missing CSV cell.
NaN == [t |-> "nan", v |-> "nan", n |-> 0]

BbmpTag == "BBMP (Ward)"

BescomTag == "BESCOM (Division)"

RosterRows ==
    {[department |-> BbmpTag, area |-> PyStr("HSR Layout"), name |-> "Ward Officer", phone |-> PyStr("080-22660000")],
     [department |-> BescomTag, area |-> PyStr("HSR Layout"), name |-> "Executive Engineer", phone |-> PyStr("1912")],
     [department |-> BbmpTag, area |-> PyStr("BTM Layout"), name |-> "Nodal Officer", phone |-> NaN],
     [department |-> BescomTag, area |-> PyStr("BTM Layout"), name |-> "Assistant Engineer", phone |-> PyStr("")]}

Rosters == UNION {[1..k -> RosterRows] : k \in 0..MaxRosterRows}

NoRoster == <<>>

\* iloc[0] of the filtered frame (kept: the indices the filter keeps), or
\* None when the frame is empty.
FirstMatch(df, kept) ==
    IF kept # {}
    THEN LET i == CHOOSE j \in kept : \A k \in kept : j <= k
         IN  [exc |-> NoExc, found |-> TRUE, row |-> df[i]]
    ELSE [exc |-> NoExc, found |-> FALSE, row |-> <<>>]

\* str.contains with na=False: a missing area never matches.
AreaContains(row, name) == row.area.t = "str" /\ Contains(row.area.v, name)

\* trash_agent / pothole_agent find_official_for_ward.  str.contains compiles
\* its pattern, so a pattern that is not a str raises TypeError and one
\* that is not a regular expression raises re.error.
find_official_for_ward(officials_df, ward_name) ==
    IF ward_name.t # "str"
    THEN [exc |-> "TypeError", found |-> FALSE, row |-> <<>>]
    ELSE IF ~ReCompiles(ward_name.v)
    THEN [exc |-> "re.error", found |-> FALSE, row |-> <<>>]
    ELSE FirstMatch(officials_df,
            {i \in 1..Len(officials_df) :
                /\ officials_df[i].department = BbmpTag
                /\ AreaContains(officials_df[i], ward_name.v)})

\* find_official_for_division without its two phone conditions.
find_official_for_division_NoPhone(officials_df, division_name) ==
    IF division_name.t # "str"
    THEN [exc |-> "TypeError", found |-> FALSE, row |-> <<>>]
    ELSE IF ~ReCompiles(division_name.v)
    THEN [exc |-> "re.error", found |-> FALSE, row |-> <<>>]
    ELSE FirstMatch(officials_df,
            {i \in 1..Len(officials_df) :
                /\ officials_df[i].department = BescomTag
                /\ AreaContains(officials_df[i], division_name.v)})

\* electricity_agent find_official_for_division.
find_official_for_division(officials_df, division_name) ==
    IF division_name.t # "str"
    THEN [exc |-> "TypeError", found |-> FALSE, row |-> <<>>]
    ELSE IF ~ReCompiles(division_name.v)
    THEN [exc |-> "re.error", found |-> FALSE, row |-> <<>>]
    ELSE FirstMatch(officials_df,
            {i \in 1..Len(officials_df) :
                /\ officials_df[i].department = BescomTag
                /\ AreaContains(officials_df[i], division_name.v)
                /\ officials_df[i].phone # NaN
                /\ officials_df[i].phone # PyStr("")})

\* ------------------------------------------------------------------------
\* Issue Analyzer replies and JSON parsing
\* ------------------------------------------------------------------------
Agents == {"trash", "pothole", "electricity"}

PresenceKey(agent) == IF agent = "pothole" THEN "is_pothole_present" ELSE "issue_present"

LocatorKey(agent) == IF agent = "electricity" THEN "division_name" ELSE "ward_name"

TypeKey(agent) ==
    CASE agent = "trash" -> "trash_type"
      [] agent = "pothole" -> "pothole_count"
      [] agent = "electricity" -> "issue_type"

TypeValue(agent) ==
    CASE agent = "trash" -> PyStr("Plastic waste")
      [] agent = "pothole" -> PyStr("2")
      [] agent = "electricity" -> PyStr("Street Light")

Field(present, key, val) == IF present THEN (key :> val) ELSE EmptyDict

\* JSON objects the model may send back: any subset of the keys, the
\* locator a matching name, a name the roster lacks, or null.
AnalysisObjects(agent) ==
    { Field(p # <<>>, PresenceKey(agent), PyBool(p = <<TRUE>>))
        @@ Field(l # <<>>, LocatorKey(agent), IF l = <<"null">> THEN PyNone ELSE PyStr(l[1]))
        @@ Field(d, TypeKey(agent), TypeValue(agent))
        @@ Field(d, "severity", PyStr("Medium"))
        @@ Field(d, "situation_description", PyStr("Seen in the photo."))
      : p \in {<<>>, <<TRUE>>, <<FALSE>>},
        l \in {<<>>, <<"hsr">>, <<"Whitefield">>, <<"null">>},
        d \in BOOLEAN }

\* response.text of the analyzer call: a JSON object (bare or wrapped in a
\* markdown fence), another JSON value, or prose.
AnalyzerTexts(agent) ==
    {[t |-> "str", fence |-> FALSE, kind |-> "prose", obj |-> EmptyDict],
     [t |-> "str", fence |-> FALSE, kind |-> "array", obj |-> EmptyDict]}
    \cup {[t |-> "str", fence |-> f, kind |-> "object", obj |-> o] :
            f \in BOOLEAN, o \in AnalysisObjects(agent)}

\* The {"error": ...} dict the analyzer returns instead of text.
ErrorDict(msg) == [t |-> "dict", fence |-> FALSE, kind |-> msg, obj |-> EmptyDict]

\* text.strip().replace("```json", "").replace("```", "")
CleanFences(text) == [text EXCEPT !.fence = FALSE]

\* json.loads: TypeError for a dict argument, JSONDecodeError for text that
\* is not JSON (prose, or text still carrying a fence).
json_loads(x) ==
    CASE x.t # "str" -> [exc |-> "TypeError", t |-> "none", obj |-> EmptyDict]
      [] x.t = "str" /\ (x.fence \/ x.kind = "prose") ->
            [exc |-> "JSONDecodeError", t |-> "none", obj |-> EmptyDict]
      [] x.t = "str" /\ ~x.fence /\ x.kind = "array" ->
            [exc |-> NoExc, t |-> "list", obj |-> EmptyDict]
      [] OTHER -> [exc |-> NoExc, t |-> "dict", obj |-> x.obj]

\* ------------------------------------------------------------------------
\* Email Drafter.  Subjects are the f-strings of the source; a body is the
\* template used and the interpolated lines, the fixed paragraphs left out.
\* ------------------------------------------------------------------------
LocationLines(area, lat, lon) ==
    <<"- Area: " \o Str(area), "- Coordinates: " \o Str(lat) \o ", " \o Str(lon)>>

\* trash generate_email_content with .get(key) in place of .get(key, default).
trash_generate_email_content_NoDefaults(analysis_data, location_info) ==
    LET area == DictGet(location_info, "area", PyStr("Unknown Area"))
        lat == DictGet(location_info, "lat", PyStr("N/A"))
        lon == DictGet(location_info, "lon", PyStr("N/A"))
        trash_type == DictGet(analysis_data, "trash_type", PyNone)
        severity == DictGet(analysis_data, "severity", PyNone)
        description == DictGet(analysis_data, "situation_description", PyNone)
    IN  [subject |-> "Garbage/Waste Management Issue - " \o Str(area)
                        \o " (Severity: " \o Str(severity) \o ")",
         body |-> [template |-> "report",
                   lines |-> LocationLines(area, lat, lon)
                       \o <<"- Type of Waste: " \o Str(trash_type),
                            "- Severity Level: " \o Str(severity),
                            "- Description: " \o Str(description)>>],
         to |-> "info@bbmp.gov.in"]

trash_generate_email_content(analysis_data, location_info) ==
    LET area == DictGet(location_info, "area", PyStr("Unknown Area"))
        lat == DictGet(location_info, "lat", PyStr("N/A"))
        lon == DictGet(location_info, "lon", PyStr("N/A"))
        trash_type == DictGet(analysis_data, "trash_type", PyStr("Mixed waste"))
        severity == DictGet(analysis_data, "severity", PyStr("N/A"))
        description == DictGet(analysis_data, "situation_description",
                               PyStr("Trash issue reported by citizen"))
    IN  [subject |-> "Garbage/Waste Management Issue - " \o Str(area)
                        \o " (Severity: " \o Str(severity) \o ")",
         body |-> [template |-> "report",
                   lines |-> LocationLines(area, lat, lon)
                       \o <<"- Type of Waste: " \o Str(trash_type),
                            "- Severity Level: " \o Str(severity),
                            "- Description: " \o Str(description)>>],
         to |-> "info@bbmp.gov.in"]

pothole_generate_email_content(analysis_data, location_info) ==
    LET area == DictGet(location_info, "area", PyStr("Unknown Area"))
        lat == DictGet(location_info, "lat", PyStr("N/A"))
        lon == DictGet(location_info, "lon", PyStr("N/A"))
        is_pothole == DictGet(analysis_data, "is_pothole_present", PyBool(FALSE))
        severity == DictGet(analysis_data, "severity", PyStr("N/A"))
        count == DictGet(analysis_data, "pothole_count", PyStr("N/A"))
        description == DictGet(analysis_data, "situation_description",
                               PyStr("Pothole reported by citizen"))
    IN  IF ~Truthy(is_pothole)
        THEN [subject |-> "Road Condition Report - " \o Str(area),
              body |-> [template |-> "review", lines |-> LocationLines(area, lat, lon)],
              to |-> "info@bbmp.gov.in"]
        ELSE [subject |-> "URGENT: Pothole Report - " \o Str(area)
                             \o " (Severity: " \o Str(severity) \o ")",
              body |-> [template |-> "urgent",
                        lines |-> LocationLines(area, lat, lon)
                            \o <<"- Number of Potholes: " \o Str(count),
                                 "- Severity Level: " \o Str(severity),
                                 "- Description: " \o Str(description)>>],
              to |-> "info@bbmp.gov.in"]

\* electricity generate_email_content with `if issue_present` in place of
\* `if not issue_present`.
electricity_generate_email_content_Swapped(analysis_data, location_info) ==
    LET area == DictGet(location_info, "area", PyStr("Unknown Area"))
        lat == DictGet(location_info, "lat", PyStr("N/A"))
        lon == DictGet(location_info, "lon", PyStr("N/A"))
        issue_present == DictGet(analysis_data, "issue_present", PyBool(FALSE))
        issue_type == DictGet(analysis_data, "issue_type", PyStr("Electrical Issue"))
        severity == DictGet(analysis_data, "severity", PyStr("N/A"))
        description == DictGet(analysis_data, "situation_description",
                               PyStr("Electrical issue reported by citizen"))
    IN  IF Truthy(issue_present)
        THEN [subject |-> "Electrical Infrastructure Review - " \o Str(area),
              body |-> [template |-> "review", lines |-> LocationLines(area, lat, lon)],
              to |-> "info@bescom.co.in"]
        ELSE [subject |-> "URGENT: " \o Str(issue_type) \o " Issue - " \o Str(area)
                             \o " (Severity: " \o Str(severity) \o ")",
              body |-> [template |-> "urgent",
                        lines |-> LocationLines(area, lat, lon)
                            \o <<"- Type of Issue: " \o Str(issue_type),
                                 "- Severity Level: " \o Str(severity),
                                 "- Description: " \o Str(description)>>],
              to |-> "info@bescom.co.in"]

electricity_generate_email_content(analysis_data, location_info) ==
    LET area == DictGet(location_info, "area", PyStr("Unknown Area"))
        lat == DictGet(location_info, "lat", PyStr("N/A"))
        lon == DictGet(location_info, "lon", PyStr("N/A"))
        issue_present == DictGet(analysis_data, "issue_present", PyBool(FALSE))
        issue_type == DictGet(analysis_data, "issue_type", PyStr("Electrical Issue"))
        severity == DictGet(analysis_data, "severity", PyStr("N/A"))
        description == DictGet(analysis_data, "situation_description",
                               PyStr("Electrical issue reported by citizen"))
    IN  IF ~Truthy(issue_present)
        THEN [subject |-> "Electrical Infrastructure Review - " \o Str(area),
              body |-> [template |-> "review", lines |-> LocationLines(area, lat, lon)],
              to |-> "info@bescom.co.in"]
        ELSE [subject |-> "URGENT: " \o Str(issue_type) \o " Issue - " \o Str(area)
                             \o " (Severity: " \o Str(severity) \o ")",
              body |-> [template |-> "urgent",
                        lines |-> LocationLines(area, lat, lon)
                            \o <<"- Type of Issue: " \o Str(issue_type),
                                 "- Severity Level: " \o Str(severity),
                                 "- Description: " \o Str(description)>>],
              to |-> "info@bescom.co.in"]

generate_email_content(agent, analysis_data, location_info) ==
    CASE agent = "trash" -> trash_generate_email_content(analysis_data, location_info)
      [] agent = "pothole" -> pothole_generate_email_content(analysis_data, location_info)
      [] agent = "electricity" -> electricity_generate_email_content(analysis_data, location_info)

\* ------------------------------------------------------------------------
\* Intent Classifier text and the dispatch table
\* ------------------------------------------------------------------------
ReportLabels == {"report_trash", "report_pothole", "report_electricity"}

\* response.text values the generation service may give the classifier.
ClassifierTexts ==
    {"report_trash", " Report_Pothole\n", "REPORT_ELECTRICITY", "find_events\n",
     "check_traffic", "general_question", "report_trash.", "Intent: report_pothole", ""}

\* text.strip().lower()
StripLower(text) ==
    CASE text = " Report_Pothole\n" -> "report_pothole"
      [] text = "REPORT_ELECTRICITY" -> "report_electricity"
      [] text = "find_events\n" -> "find_events"
      [] text = "Intent: report_pothole" -> "intent: report_pothole"
      [] OTHER -> text

\* Variant of Route that tests `image_path is None` instead of falsiness.
Route_ImageIsNotNone(label, path) ==
    CASE label = "report_trash" -> IF path = PyNone THEN "image_required" ELSE "trash"
      [] label = "report_pothole" -> IF path = PyNone THEN "image_required" ELSE "pothole"
      [] label = "report_electricity" -> IF path = PyNone THEN "image_required" ELSE "electricity"
      [] label = "find_events" -> "events"
      [] label = "check_traffic" -> "traffic"
      [] OTHER -> "general"

\* Variant of Route that, given an image, also accepts the trash label
\* followed by punctuation.
Route_LooseLabel(label, path) ==
    CASE label = "report_trash." /\ Truthy(path) -> "trash"
      [] label = "report_trash" -> IF ~Truthy(path) THEN "image_required" ELSE "trash"
      [] label = "report_pothole" -> IF ~Truthy(path) THEN "image_required" ELSE "pothole"
      [] label = "report_electricity" -> IF ~Truthy(path) THEN "image_required" ELSE "electricity"
      [] label = "find_events" -> "events"
      [] label = "check_traffic" -> "traffic"
      [] OTHER -> "general"

\* Variant of Route in which find_events needs no image only: with an image
\* attached the request is taken for a trash report.
Route_EventsWithImage(label, path) ==
    CASE label = "report_trash" -> IF ~Truthy(path) THEN "image_required" ELSE "trash"
      [] label = "report_pothole" -> IF ~Truthy(path) THEN "image_required" ELSE "pothole"
      [] label = "report_electricity" -> IF ~Truthy(path) THEN "image_required" ELSE "electricity"
      [] label = "find_events" -> IF Truthy(path) THEN "trash" ELSE "events"
      [] label = "check_traffic" -> "traffic"
      [] OTHER -> "general"

\* Variant of Route without the check_traffic branch.
Route_NoTrafficBranch(label, path) ==
    CASE label = "report_trash" -> IF ~Truthy(path) THEN "image_required" ELSE "trash"
      [] label = "report_pothole" -> IF ~Truthy(path) THEN "image_required" ELSE "pothole"
      [] label = "report_electricity" -> IF ~Truthy(path) THEN "image_required" ELSE "electricity"
      [] label = "find_events" -> "events"
      [] OTHER -> "general"

\* The if/elif chain of process_request: the branch taken for a label.
Route(label, path) ==
    CASE label = "report_trash" -> IF ~Truthy(path) THEN "image_required" ELSE "trash"
      [] label = "report_pothole" -> IF ~Truthy(path) THEN "image_required" ELSE "pothole"
      [] label = "report_electricity" -> IF ~Truthy(path) THEN "image_required" ELSE "electricity"
      [] label = "find_events" -> "events"
      [] label = "check_traffic" -> "traffic"
      [] OTHER -> "general"

\* Variants of HasCoordinate: the test dropped, and the test inverted.
HasCoordinate_Always(la, lo) == TRUE

HasCoordinate_Inverted(la, lo) == ~(Truthy(la) /\ Truthy(lo))

\* `if lat and lon:` of the three workflow functions.
HasCoordinate(la, lo) == Truthy(la) /\ Truthy(lo)

\* ------------------------------------------------------------------------
\* Result records
\* ------------------------------------------------------------------------
Pending == [pending |-> TRUE]

Error(msg, exc) == [msg |-> msg, exc |-> exc]

GeolocationMessage == "Could not retrieve geolocation data from the image."

ImageRequiredMessage(label) ==
    CASE label = "report_trash" -> "Image required for trash reporting"
      [] label = "report_pothole" -> "Image required for pothole reporting"
      [] label = "report_electricity" -> "Image required for electricity reporting"

ImageRequiredResult(label) ==
    [success |-> FALSE, error |-> Error(ImageRequiredMessage(label), NoExc), intent |-> label]

TrafficResult(label) ==
    [success |-> FALSE, agent_type |-> "traffic",
     error |-> Error("Traffic Agent is currently under development", NoExc),
     message |-> "Coming soon: Real-time traffic updates, route optimization, and road conditions!",
     intent |-> label]

GeolocationFailure(agent) ==
    [success |-> FALSE, agent_type |-> agent, error |-> Error(GeolocationMessage, NoExc)]

ModuleNotFound(agent) ==
    [success |-> FALSE, agent_type |-> agent,
     error |-> Error(
        CASE agent = "trash" -> "Trash agent module not found. Please ensure trash_agent.py exists."
          [] agent = "pothole" -> "Pothole agent module not found. Please ensure pothole_agent.py exists."
          [] agent = "electricity" -> "Electricity agent module not found. Please ensure electricity_agent.py exists."
          [] agent = "events" -> "Events agent module not found. Please ensure events_agent.py exists.",
        NoExc)]

WorkflowFailed(agent, exc) ==
    [success |-> FALSE, agent_type |-> agent,
     error |-> Error("Workflow execution failed: ", exc)]

\* The catch-all record of process_request without its error entry.
OrchestrationFailed_NoError(exc) ==
    [success |-> FALSE, intent |-> "unknown"]

OrchestrationFailed(exc) ==
    [success |-> FALSE, error |-> Error("Orchestration failed: ", exc), intent |-> "unknown"]

\* Variant of OrchestratorBoundary whose clause is `except ValueError`.
OrchestratorBoundary_Narrow(exc) ==
    IF IsSubclass(exc, "ValueError")
    THEN [result |-> OrchestrationFailed(exc), raised |-> NoExc]
    ELSE [result |-> Pending, raised |-> exc]

\* The except clauses of process_request: what the caller gets when exc
\* reaches them, a record or the exception itself.
OrchestratorBoundary(exc) ==
    IF IsSubclass(exc, "Exception")
    THEN [result |-> OrchestrationFailed(exc), raised |-> NoExc]
    ELSE [result |-> Pending, raised |-> exc]

\* The except clauses of an execute_*_workflow function, followed by those
\* of process_request for what they let through.
WorkflowBoundary(agent, exc) ==
    IF IsSubclass(exc, "ImportError")
    THEN [result |-> ModuleNotFound(agent), raised |-> NoExc]
    ELSE IF IsSubclass(exc, "Exception")
    THEN [result |-> WorkflowFailed(agent, exc), raised |-> NoExc]
    ELSE OrchestratorBoundary(exc)

\* ------------------------------------------------------------------------
\* State
\* ------------------------------------------------------------------------
VARIABLES
    user_query,         \* process_request argument
    image_path,         \* process_request argument
    file,               \* the image file behind image_path
    pc,                 \* position of the request
    classifier,         \* how get_user_intent ended: "pending", "returned",
                        \* "call_failed" (except clause) or "client_failed"
    intent,             \* label returned by get_user_intent
    agent,              \* category of the workflow function entered
    officials_data,     \* workflow local
    lat,                \* workflow local
    lon,                \* workflow local
    area,               \* workflow local
    geocoded,           \* what get_area_from_latlon returned (before any fallback)
    analysis_json_str,  \* workflow local
    analysis,           \* workflow local, unbound until json.loads returns
    ward_name,          \* workflow local (division_name for electricity)
    official_info,      \* workflow local
    calls,              \* functions and remote calls made so far, in order
    result,             \* what process_request returned
    caught,             \* exception that reached an except clause of a boundary
    raised,             \* exception that left process_request
    now,                \* int(time.time()) of the server
    uploads,            \* the upload folder: path -> whose bytes it holds
    gcs_bucket,         \* app.gcs_bucket is set
    req                 \* the HTTP requests in flight

vars == <<user_query, image_path, file, pc, classifier, geocoded, intent, agent, officials_data, lat, lon,
          area, analysis_json_str, analysis, ward_name, official_info, calls,
          result, caught, raised, now, uploads, gcs_bucket, req>>

\* The Flask application's state.
server == <<now, uploads, gcs_bucket, req>>

\* The state of one orchestrator call.
orchestration == <<user_query, image_path, file, pc, classifier, geocoded, intent, agent,
                   officials_data, lat, lon, area, analysis_json_str, analysis, ward_name,
                   official_info, calls, result, caught, raised>>

inputs == <<user_query, image_path, file>>

locals == <<officials_data, lat, lon, area, analysis_json_str, analysis, ward_name,
            official_info>>

Unbound == [exc |-> NoExc, t |-> "unbound", obj |-> EmptyDict]

NoText == [t |-> "none", fence |-> FALSE, kind |-> "", obj |-> EmptyDict]

NoOfficial == [exc |-> NoExc, found |-> FALSE, row |-> <<>>]

\* No HTTP request in flight, nothing in the upload folder.
ServerIdle ==
    /\ now = 0
    /\ uploads = <<>>
    /\ gcs_bucket = FALSE
    /\ req = <<>>

Init ==
    /\ user_query \in Queries
    /\ image_path \in ImagePaths
    /\ file \in IF Truthy(image_path) THEN ImageFiles ELSE {NoFile}
    /\ pc = "received"
    /\ classifier = "pending"
    /\ intent = ""
    /\ agent = ""
    /\ officials_data = NoRoster
    /\ lat = PyNone
    /\ lon = PyNone
    /\ area = PyNone
    /\ geocoded = PyNone
    /\ analysis_json_str = NoText
    /\ analysis = Unbound
    /\ ward_name = PyNone
    /\ official_info = NoOfficial
    /\ calls = <<>>
    /\ result = Pending
    /\ caught = NoExc
    /\ raised = NoExc
    /\ ServerIdle

\* process_request returns (or raises) what a boundary produced.
Leave(b, exc, made) ==
    /\ pc' = "done"
    /\ result' = b.result
    /\ raised' = b.raised
    /\ caught' = exc
    /\ calls' = calls \o made

\* ------------------------------------------------------------------------
\* get_user_intent
\* ------------------------------------------------------------------------
\* genai.Client() stands before the try block: its exception leaves
\* get_user_intent and is caught by process_request.
GetUserIntentClientFails ==
    /\ pc = "received"
    /\ Leave(OrchestratorBoundary("ClientError"), "ClientError",
             <<"get_user_intent", "genai.Client">>)
    /\ classifier' = "client_failed"
    /\ UNCHANGED <<server, inputs, geocoded, locals, intent, agent>>

\* generate_content raised, or response.text was None: the except clause
\* returns the default label.
GetUserIntentCallFails ==
    /\ pc = "received"
    /\ intent' = "general_question"
    /\ classifier' = "call_failed"
    /\ pc' = "classified"
    /\ calls' = calls \o <<"get_user_intent", "genai.Client", "generate_content">>
    /\ UNCHANGED <<server, inputs, geocoded, locals, agent, result, caught, raised>>

GetUserIntentReturns ==
    /\ pc = "received"
    /\ \E text \in ClassifierTexts : intent' = StripLower(text)
    /\ classifier' = "returned"
    /\ pc' = "classified"
    /\ calls' = calls \o <<"get_user_intent", "genai.Client", "generate_content">>
    /\ UNCHANGED <<server, inputs, geocoded, locals, agent, result, caught, raised>>

\* ------------------------------------------------------------------------
\* process_request: dispatch
\* ------------------------------------------------------------------------
DispatchImageRequired ==
    /\ pc = "classified"
    /\ Route(intent, image_path) = "image_required"
    /\ Leave([result |-> ImageRequiredResult(intent), raised |-> NoExc], NoExc,
             <<"image_required">>)
    /\ UNCHANGED <<server, inputs, classifier, geocoded, locals, intent, agent>>

DispatchWorkflow ==
    /\ pc = "classified"
    /\ Route(intent, image_path) \in Agents
    /\ agent' = Route(intent, image_path)
    /\ pc' = "wf_import"
    /\ calls' = Append(calls, "execute_" \o agent' \o "_agent_workflow")
    /\ UNCHANGED <<server, inputs, classifier, geocoded, locals, intent, result, caught, raised>>

DispatchTraffic ==
    /\ pc = "classified"
    /\ Route(intent, image_path) = "traffic"
    /\ Leave([result |-> TrafficResult(intent), raised |-> NoExc], NoExc,
             <<"traffic_stub">>)
    /\ UNCHANGED <<server, inputs, classifier, geocoded, locals, intent, agent>>

\* ------------------------------------------------------------------------
\* execute_events_agent_workflow and handle_general_question
\* ------------------------------------------------------------------------
EventCounts == {0, 3}

\* events_agent.generate_events_response
EventsResponse(total_count, query) ==
    IF total_count = 0
    THEN [success |-> TRUE, agent_type |-> "events", display_type |-> "list",
          total_count |-> 0, query |-> ""]
    ELSE [success |-> TRUE, agent_type |-> "events", display_type |-> "map_and_list",
          total_count |-> total_count, query |-> query]

DispatchEvents ==
    /\ pc = "classified"
    /\ Route(intent, image_path) = "events"
    /\ pc' = "ev_load"
    /\ calls' = Append(calls, "execute_events_agent_workflow")
    /\ UNCHANGED <<server, inputs, classifier, geocoded, locals, intent, agent, result, caught, raised>>

\* import events_agent or events_agent.configure_and_load_data raised.
EventsLoadFails ==
    /\ pc = "ev_load"
    /\ \E exc \in {"ImportError", "FileNotFoundError"} :
          Leave(WorkflowBoundary("events", exc), exc,
                IF exc = "ImportError" THEN <<>> ELSE <<"events.configure_and_load_data">>)
    /\ UNCHANGED <<server, inputs, classifier, geocoded, locals, intent, agent>>

\* search_events absorbs its own failures into an empty result set.
EventsRespond ==
    /\ pc = "ev_load"
    /\ \E n \in EventCounts :
          Leave([result |-> EventsResponse(n, user_query), raised |-> NoExc], NoExc,
                <<"events.configure_and_load_data", "search_events",
                  "generate_events_response">>)
    /\ UNCHANGED <<server, inputs, classifier, geocoded, locals, intent, agent>>

DispatchGeneral ==
    /\ pc = "classified"
    /\ Route(intent, image_path) = "general"
    /\ pc' = "gen_client"
    /\ calls' = Append(calls, "handle_general_question")
    /\ UNCHANGED <<server, inputs, classifier, geocoded, locals, intent, agent, result, caught, raised>>

\* genai.Client() stands before the try block of handle_general_question.
GeneralClientFails ==
    /\ pc = "gen_client"
    /\ Leave(OrchestratorBoundary("ClientError"), "ClientError", <<"genai.Client">>)
    /\ UNCHANGED <<server, inputs, classifier, geocoded, locals, intent, agent>>

GeneralCallFails ==
    /\ pc = "gen_client"
    /\ Leave([result |-> [success |-> FALSE, agent_type |-> "general",
                          error |-> Error("Failed to generate response: ", "ClientError")],
              raised |-> NoExc],
             "ClientError", <<"genai.Client", "generate_content">>)
    /\ UNCHANGED <<server, inputs, classifier, geocoded, locals, intent, agent>>

GeneralAnswers ==
    /\ pc = "gen_client"
    /\ Leave([result |-> [success |-> TRUE, agent_type |-> "general",
                          response |-> "Namaskara! How can I help?"],
              raised |-> NoExc],
             NoExc, <<"genai.Client", "generate_content">>)
    /\ UNCHANGED <<server, inputs, classifier, geocoded, locals, intent, agent>>

\* ------------------------------------------------------------------------
\* execute_trash / pothole / electricity _agent_workflow
\* ------------------------------------------------------------------------
\* `import <agent module>` raised.
WfImportFails ==
    /\ pc = "wf_import"
    /\ Leave(WorkflowBoundary(agent, "ImportError"), "ImportError", <<>>)
    /\ UNCHANGED <<server, inputs, classifier, geocoded, locals, intent, agent>>

\* configure_and_load_data: no API key (ValueError) or no CSV file.
WfLoadFails ==
    /\ pc = "wf_import"
    /\ \E exc \in {"ValueError", "FileNotFoundError"} :
          Leave(WorkflowBoundary(agent, exc), exc, <<"configure_and_load_data">>)
    /\ UNCHANGED <<server, inputs, classifier, geocoded, locals, intent, agent>>

WfLoadRoster ==
    /\ pc = "wf_import"
    /\ officials_data' \in Rosters
    /\ pc' = "wf_geo"
    /\ calls' = Append(calls, "configure_and_load_data")
    /\ UNCHANGED <<server, inputs, classifier, geocoded, intent, agent, lat, lon, area, analysis_json_str, analysis,
                   ward_name, official_info, result, caught, raised>>

\* The extractor run a second time on the same image.
WfGeolocation_Again ==
    /\ pc = "wf_geo"
    /\ lat' = get_geolocation(file)[1]
    /\ lon' = get_geolocation(file)[2]
    /\ pc' = "wf_located"
    /\ calls' = calls \o <<"get_geolocation", "get_geolocation">>
    /\ UNCHANGED <<server, inputs, classifier, geocoded, intent, agent, officials_data, area, analysis_json_str,
                   analysis, ward_name, official_info, result, caught, raised>>

WfGeolocation ==
    /\ pc = "wf_geo"
    /\ lat' = get_geolocation(file)[1]
    /\ lon' = get_geolocation(file)[2]
    /\ pc' = "wf_located"
    /\ calls' = Append(calls, "get_geolocation")
    /\ UNCHANGED <<server, inputs, classifier, geocoded, intent, agent, officials_data, area, analysis_json_str,
                   analysis, ward_name, official_info, result, caught, raised>>

\* else branch of `if lat and lon:`.
WfNoCoordinate ==
    /\ pc = "wf_located"
    /\ ~HasCoordinate(lat, lon)
    /\ Leave([result |-> GeolocationFailure(agent), raised |-> NoExc], NoExc, <<>>)
    /\ UNCHANGED <<server, inputs, classifier, geocoded, locals, intent, agent>>

\* What get_area_from_latlon can return: None on any failure, else a name.
GeocoderAnswers == {PyNone, PyStr("BTM Layout")}

\* The fallback applied by every workflow.
AreaAfterFallback_EveryAgent(ag, resolved) ==
    IF ~Truthy(resolved) THEN PyStr(TrashFallbackArea) ELSE resolved

\* `if not area: area = "HSR Layout"` exists in the trash workflow only.
AreaAfterFallback(ag, resolved) ==
    IF ag = "trash" /\ ~Truthy(resolved) THEN PyStr(TrashFallbackArea) ELSE resolved

WfAreaResolver ==
    /\ pc = "wf_located"
    /\ HasCoordinate(lat, lon)
    /\ \E answer \in GeocoderAnswers :
          /\ geocoded' = answer
          /\ area' = AreaAfterFallback(agent, answer)
    /\ pc' = "wf_analyze"
    /\ calls' = Append(calls, "get_area_from_latlon")
    /\ UNCHANGED <<server, inputs, classifier, intent, agent, officials_data, lat, lon, analysis_json_str,
                   analysis, ward_name, official_info, result, caught, raised>>

\* genai.Client() stands before the analyzer's try blocks: its exception
\* leaves the analyzer and reaches the workflow's except clause.
WfAnalyzerClientFails ==
    /\ pc = "wf_analyze"
    /\ Leave(WorkflowBoundary(agent, "ClientError"), "ClientError",
             <<"get_analysis_from_gemini", "genai.Client">>)
    /\ UNCHANGED <<server, inputs, classifier, geocoded, locals, intent, agent>>

\* open(image_path) failed: the analyzer returns an error dict.
WfAnalyzerReadFails ==
    /\ pc = "wf_analyze"
    /\ analysis_json_str' = ErrorDict("Could not open image: ")
    /\ pc' = "wf_parse"
    /\ calls' = calls \o <<"get_analysis_from_gemini", "genai.Client">>
    /\ UNCHANGED <<server, inputs, classifier, geocoded, intent, agent, officials_data, lat, lon, area, analysis,
                   ward_name, official_info, result, caught, raised>>

\* The analyzer sending its request a second time after a failure.
WfAnalyzerCallFails_Retry ==
    /\ pc = "wf_analyze"
    /\ analysis_json_str' = ErrorDict("Exception during Gemini API call: ")
    /\ pc' = "wf_parse"
    /\ calls' = calls \o <<"get_analysis_from_gemini", "genai.Client",
                            "generate_content", "generate_content">>
    /\ UNCHANGED <<server, inputs, classifier, geocoded, intent, agent, officials_data, lat, lon, area, analysis,
                   ward_name, official_info, result, caught, raised>>

\* generate_content raised: the analyzer returns an error dict.
WfAnalyzerCallFails ==
    /\ pc = "wf_analyze"
    /\ analysis_json_str' = ErrorDict("Exception during Gemini API call: ")
    /\ pc' = "wf_parse"
    /\ calls' = calls \o <<"get_analysis_from_gemini", "genai.Client", "generate_content">>
    /\ UNCHANGED <<server, inputs, classifier, geocoded, intent, agent, officials_data, lat, lon, area, analysis,
                   ward_name, official_info, result, caught, raised>>

WfAnalyzerReturns ==
    /\ pc = "wf_analyze"
    /\ \E text \in AnalyzerTexts(agent) : analysis_json_str' = CleanFences(text)
    /\ pc' = "wf_parse"
    /\ calls' = calls \o <<"get_analysis_from_gemini", "genai.Client", "generate_content">>
    /\ UNCHANGED <<server, inputs, classifier, geocoded, intent, agent, officials_data, lat, lon, area, analysis,
                   ward_name, official_info, result, caught, raised>>

\* Variant of ParseAnalysis whose inner clause is
\* `except (json.JSONDecodeError, TypeError)`.
ParseAnalysis_CatchesTypeError(ag, text, ar) ==
    LET parsed == json_loads(text)
    IN  CASE parsed.exc \in {"JSONDecodeError", "TypeError"} ->
                [exc |-> NoExc, analysis |-> Unbound, ward_name |-> ar]
          [] parsed.exc \notin {NoExc, "JSONDecodeError", "TypeError"} ->
                [exc |-> parsed.exc, analysis |-> Unbound, ward_name |-> PyNone]
          [] parsed.exc = NoExc /\ parsed.t # "dict" ->
                [exc |-> "AttributeError", analysis |-> parsed, ward_name |-> PyNone]
          [] OTHER ->
                [exc |-> NoExc, analysis |-> parsed,
                 ward_name |-> DictGet(parsed.obj, LocatorKey(ag), ar)]

\* The inner try of the workflow: json.loads, then analysis.get(<locator>,
\* area).  Only JSONDecodeError is handled there; `analysis` stays unbound
\* on that path.  The outcome: the exception that leaves the block (if any)
\* and the two locals.
ParseAnalysis(ag, text, ar) ==
    LET parsed == json_loads(text)
    IN  CASE parsed.exc = "JSONDecodeError" ->
                [exc |-> NoExc, analysis |-> Unbound, ward_name |-> ar]
          [] parsed.exc \notin {NoExc, "JSONDecodeError"} ->
                [exc |-> parsed.exc, analysis |-> Unbound, ward_name |-> PyNone]
          [] parsed.exc = NoExc /\ parsed.t # "dict" ->
                [exc |-> "AttributeError", analysis |-> parsed, ward_name |-> PyNone]
          [] OTHER ->
                [exc |-> NoExc, analysis |-> parsed,
                 ward_name |-> DictGet(parsed.obj, LocatorKey(ag), ar)]

\* A reply that cannot be used sends the workflow back to the analyzer.
WfParseFails_AskAgain ==
    /\ pc = "wf_parse"
    /\ ParseAnalysis(agent, analysis_json_str, area).exc # NoExc
    /\ pc' = "wf_analyze"
    /\ analysis_json_str' = NoText
    /\ UNCHANGED <<server, inputs, classifier, geocoded, intent, agent, officials_data, lat, lon,
                   area, analysis, ward_name, official_info, calls, result, caught, raised>>

WfParseFails ==
    /\ pc = "wf_parse"
    /\ ParseAnalysis(agent, analysis_json_str, area).exc # NoExc
    /\ LET exc == ParseAnalysis(agent, analysis_json_str, area).exc
       IN  Leave(WorkflowBoundary(agent, exc), exc, <<>>)
    /\ UNCHANGED <<server, inputs, classifier, geocoded, locals, intent, agent>>

WfParse ==
    /\ pc = "wf_parse"
    /\ ParseAnalysis(agent, analysis_json_str, area).exc = NoExc
    /\ analysis' = ParseAnalysis(agent, analysis_json_str, area).analysis
    /\ ward_name' = ParseAnalysis(agent, analysis_json_str, area).ward_name
    /\ pc' = "wf_lookup"
    /\ UNCHANGED <<server, inputs, classifier, geocoded, intent, agent, officials_data, lat, lon, area,
                   analysis_json_str, official_info, calls, result, caught, raised>>

find_official(ag, df, name) ==
    IF ag = "electricity" THEN find_official_for_division(df, name)
    ELSE find_official_for_ward(df, name)

WfLookupFails ==
    /\ pc = "wf_lookup"
    /\ find_official(agent, officials_data, ward_name).exc # NoExc
    /\ LET exc == find_official(agent, officials_data, ward_name).exc
       IN  Leave(WorkflowBoundary(agent, exc), exc, <<"find_official">>)
    /\ UNCHANGED <<server, inputs, classifier, geocoded, locals, intent, agent>>

WfLookup ==
    /\ pc = "wf_lookup"
    /\ find_official(agent, officials_data, ward_name).exc = NoExc
    /\ official_info' = find_official(agent, officials_data, ward_name)
    /\ pc' = "wf_email"
    /\ calls' = Append(calls, "find_official")
    /\ UNCHANGED <<server, inputs, classifier, geocoded, intent, agent, officials_data, lat, lon, area,
                   analysis_json_str, analysis, ward_name, result, caught, raised>>

\* Evaluating the argument `analysis` while it is unbound raises
\* UnboundLocalError before generate_email_content is entered.
WfEmailFails ==
    /\ pc = "wf_email"
    /\ analysis.t = "unbound"
    /\ Leave(WorkflowBoundary(agent, "UnboundLocalError"), "UnboundLocalError", <<>>)
    /\ UNCHANGED <<server, inputs, classifier, geocoded, locals, intent, agent>>

WorkflowSuccess(ag, text, official, email, ar, la, lo) ==
    [success |-> TRUE, agent_type |-> ag, analysis |-> text,
     official_info |-> IF official.found THEN official.row ELSE PyNone,
     email_content |-> email, area |-> ar, lat |-> la, lon |-> lo]

WfEmail ==
    /\ pc = "wf_email"
    /\ analysis.t # "unbound"
    /\ LET location_info == [area |-> area, lat |-> lat, lon |-> lon]
           email_content == generate_email_content(agent, analysis.obj, location_info)
       IN  Leave([result |-> WorkflowSuccess(agent, analysis_json_str, official_info,
                                             email_content, area, lat, lon),
                  raised |-> NoExc],
                 NoExc, <<"generate_email_content">>)
    /\ UNCHANGED <<server, inputs, classifier, geocoded, locals, intent, agent>>

\* ------------------------------------------------------------------------
\* Specification
\* ------------------------------------------------------------------------
Next ==
    \/ GetUserIntentClientFails
    \/ GetUserIntentCallFails
    \/ GetUserIntentReturns
    \/ DispatchImageRequired
    \/ DispatchWorkflow
    \/ DispatchTraffic
    \/ DispatchEvents
    \/ EventsLoadFails
    \/ EventsRespond
    \/ DispatchGeneral
    \/ GeneralClientFails
    \/ GeneralCallFails
    \/ GeneralAnswers
    \/ WfImportFails
    \/ WfLoadFails
    \/ WfLoadRoster
    \/ WfGeolocation
    \/ WfNoCoordinate
    \/ WfAreaResolver
    \/ WfAnalyzerClientFails
    \/ WfAnalyzerReadFails
    \/ WfAnalyzerCallFails
    \/ WfAnalyzerReturns
    \/ WfParseFails
    \/ WfParse
    \/ WfLookupFails
    \/ WfLookup
    \/ WfEmailFails
    \/ WfEmail

Spec == Init /\ [][Next]_vars

\* ------------------------------------------------------------------------
\* The Official Directory Lookup on its own: any roster, any locator
\* ------------------------------------------------------------------------
\* Locator names the lookup is handed: names the analyzer may write
\* (plain, with a parenthesised part, with a stray parenthesis, empty) and
\* the None that analysis.get(key, area) yields.
Locators ==
    {PyStr("hsr"), PyStr("Layout"), PyStr("BTM"), PyStr("Whitefield"), PyStr(""),
     PyStr("HSR (Layout)"), PyStr("HSR ("), PyNone}

InitLookup ==
    /\ user_query \in Queries
    /\ image_path = UploadPath
    /\ file = NoFile
    /\ pc = "lookup_ready"
    /\ classifier = "pending"
    /\ intent = ""
    /\ agent \in Agents
    /\ officials_data \in Rosters
    /\ lat = PyNone
    /\ lon = PyNone
    /\ area = PyNone
    /\ geocoded = PyNone
    /\ analysis_json_str = NoText
    /\ analysis = Unbound
    /\ ward_name \in Locators
    /\ official_info = NoOfficial
    /\ calls = <<>>
    /\ result = Pending
    /\ caught = NoExc
    /\ raised = NoExc
    /\ ServerIdle

\* The lookup returns a row or None.
LookupReturns ==
    /\ pc = "lookup_ready"
    /\ find_official(agent, officials_data, ward_name).exc = NoExc
    /\ official_info' = find_official(agent, officials_data, ward_name)
    /\ pc' = "lookup_done"
    /\ calls' = Append(calls, "find_official")
    /\ UNCHANGED <<server, inputs, classifier, geocoded, intent, agent, officials_data, lat, lon, area,
                   analysis_json_str, analysis, ward_name, result, caught, raised>>

\* The lookup raises out of str.contains.
LookupRaises ==
    /\ pc = "lookup_ready"
    /\ find_official(agent, officials_data, ward_name).exc # NoExc
    /\ raised' = find_official(agent, officials_data, ward_name).exc
    /\ pc' = "lookup_done"
    /\ calls' = Append(calls, "find_official")
    /\ UNCHANGED <<server, inputs, classifier, geocoded, intent, agent, officials_data, lat, lon, area,
                   analysis_json_str, analysis, ward_name, official_info, result, caught>>

NextLookup ==
    \/ LookupReturns
    \/ LookupRaises

SpecLookup == InitLookup /\ [][NextLookup]_vars

\* ------------------------------------------------------------------------
\* The HTTP endpoints that take an upload: /analyze and /report/<category>
\* ------------------------------------------------------------------------
\* Requests served at the same time (threads or workers of one server).
NumRequests == 2

Requests == 1..NumRequests

\* Seconds the clock of the server runs through.
MaxClock == 1

Endpoints == {"analyze", "trash", "pothole", "electricity"}

\* request.files["image"]: absent, present with an empty filename, or a
\* file; a body over MAX_CONTENT_LENGTH makes reading the form raise.
NoImage == [present |-> FALSE, filename |-> "", oversized |-> FALSE]

Images ==
    {NoImage}
    \cup {[present |-> TRUE, filename |-> n, oversized |-> FALSE] :
            n \in {"", "notes.txt", "photo.jpg", "my photo.JPG"}}
    \cup {[present |-> TRUE, filename |-> "photo.jpg", oversized |-> TRUE]}

\* werkzeug secure_filename: spaces become underscores.
secure_filename(name) ==
    CASE name = "my photo.JPG" -> "my_photo.JPG"
      [] OTHER -> name

\* allowed_file: the lower-cased extension is png, jpg, jpeg or gif.
allowed_file(name) == name \in {"photo.jpg", "my photo.JPG"}

\* os.path.join(UPLOAD_FOLDER, f"{int(time.time())}_{secure_filename}")
LocalPath(t, name) == [t |-> t, name |-> secure_filename(name)]

Paths == {LocalPath(t, n) : t \in 0..MaxClock, n \in {"photo.jpg", "my photo.JPG"}}

NoFileInfo == [local_path |-> PyNone]

NoResult == [pending |-> TRUE]

\* What a request is made of: endpoint, form and upload.  gps tells
\* whether the uploaded image carries a usable coordinate.
NewRequests ==
    {[endpoint |-> e, query |-> q, image |-> i, gps |-> g,
      at |-> "received", file_info |-> NoFileInfo, wrote |-> PyNone, saw |-> "unread",
      result |-> NoResult, status |-> 0, error |-> ""] :
        e \in Endpoints, q \in BOOLEAN, i \in Images, g \in BOOLEAN}

\* One representative per request that the code tells apart: the query
\* matters to /analyze only, the gps tags to an accepted upload only.
DistinctRequests ==
    {r \in NewRequests :
        /\ r.endpoint # "analyze" => r.query
        /\ (r.endpoint = "analyze" /\ ~r.query) => r.image = NoImage
        /\ r.gps => (allowed_file(r.image.filename) /\ ~r.image.oversized)}

\* The orchestrator's variables while the HTTP layer is looked at: its
\* calls are taken whole, by their results.
OrchestrationIdle ==
    /\ user_query = "garbage piled up near my house"
    /\ image_path = PyNone
    /\ file = NoFile
    /\ pc = "served"
    /\ classifier = "pending"
    /\ intent = ""
    /\ agent = ""
    /\ officials_data = NoRoster
    /\ lat = PyNone
    /\ lon = PyNone
    /\ area = PyNone
    /\ geocoded = PyNone
    /\ analysis_json_str = NoText
    /\ analysis = Unbound
    /\ ward_name = PyNone
    /\ official_info = NoOfficial
    /\ calls = <<>>
    /\ result = Pending
    /\ caught = NoExc
    /\ raised = NoExc

\* A worker that is not serving.
NoRequest ==
    [endpoint |-> "analyze", query |-> FALSE, image |-> NoImage, gps |-> FALSE,
     at |-> "idle", file_info |-> NoFileInfo, wrote |-> PyNone, saw |-> "unread",
     result |-> NoResult, status |-> 0, error |-> ""]

\* What the other workers are serving meanwhile: nothing, or a pothole
\* report with a photo.
Neighbours ==
    {NoRequest}
    \cup {r \in DistinctRequests :
            /\ r.endpoint = "pothole"
            /\ r.image = [present |-> TRUE, filename |-> "photo.jpg", oversized |-> FALSE]}

\* One request with any form and upload, next to what the other workers
\* serve.
InitHttp ==
    /\ OrchestrationIdle
    /\ now = 0
    /\ uploads = [p \in Paths |-> 0]
    /\ gcs_bucket \in BOOLEAN
    /\ req \in {q \in [Requests -> DistinctRequests \cup {NoRequest}] :
                    /\ q[1] \in DistinctRequests
                    /\ \A r \in Requests \ {1} : q[r] \in Neighbours}

\* The request returns (status, error) from inside the try block, or an
\* except clause does; the finally clause is still to run.
Respond(r, status, error) ==
    req' = [req EXCEPT ![r].at = "finally", ![r].status = status, ![r].error = error]

\* time.time() moves on.
Tick ==
    /\ now < MaxClock
    /\ now' = now + 1
    /\ UNCHANGED <<orchestration, uploads, gcs_bucket, req>>

\* Reading the form of an oversized body raises RequestEntityTooLarge.
EntityTooLarge(r) ==
    /\ req[r].at = "received"
    /\ req[r].image.oversized
    /\ Respond(r, 413, "File too large. Maximum size is 16MB")
    /\ UNCHANGED <<orchestration, now, uploads, gcs_bucket>>

\* The checks before save_uploaded_file.
ValidateRejects(r) ==
    /\ req[r].at = "received"
    /\ ~req[r].image.oversized
    /\ \/ /\ req[r].endpoint = "analyze"
          /\ ~req[r].query
          /\ Respond(r, 400, "Query parameter is required")
       \/ /\ req[r].endpoint # "analyze"
          /\ ~req[r].image.present
          /\ Respond(r, 400, "Image file is required")
       \/ /\ req[r].endpoint # "analyze"
          /\ req[r].image.present
          /\ req[r].image.filename = ""
          /\ Respond(r, 400, "No image file selected")
    /\ UNCHANGED <<orchestration, now, uploads, gcs_bucket>>

\* /analyze without an image goes on without saving anything.
ValidateNoImage(r) ==
    /\ req[r].at = "received"
    /\ ~req[r].image.oversized
    /\ req[r].endpoint = "analyze"
    /\ req[r].query
    /\ ~req[r].image.present \/ req[r].image.filename = ""
    /\ req' = [req EXCEPT ![r].at = "process"]
    /\ UNCHANGED <<orchestration, now, uploads, gcs_bucket>>

ValidatePasses(r) ==
    /\ req[r].at = "received"
    /\ ~req[r].image.oversized
    /\ req[r].query
    /\ req[r].image.present
    /\ req[r].image.filename # ""
    /\ req' = [req EXCEPT ![r].at = "save"]
    /\ UNCHANGED <<orchestration, now, uploads, gcs_bucket>>

\* save_uploaded_file returns None for an extension that is not allowed.
SaveRejects(r) ==
    /\ req[r].at = "save"
    /\ ~allowed_file(req[r].image.filename)
    /\ Respond(r, 400, "Invalid file format. Supported: PNG, JPG, JPEG, GIF")
    /\ UNCHANGED <<orchestration, now, uploads, gcs_bucket>>

\* file.save(local_filepath): creates or overwrites the file.
SaveWrites(r) ==
    /\ req[r].at = "save"
    /\ allowed_file(req[r].image.filename)
    /\ LET local_filepath == LocalPath(now, req[r].image.filename)
       IN  /\ uploads' = [uploads EXCEPT ![local_filepath] = r]
           /\ req' = [req EXCEPT ![r].at = "saved", ![r].wrote = local_filepath]
    /\ UNCHANGED <<orchestration, now, gcs_bucket>>

\* open(local_filepath, "rb") for the cloud upload finds no file:
\* save_uploaded_file raises and the handler's except clause answers 500.
SaveOpenFails(r) ==
    /\ req[r].at = "saved"
    /\ gcs_bucket
    /\ uploads[req[r].wrote] = 0
    /\ Respond(r, 500, "Internal server error: ")
    /\ UNCHANGED <<orchestration, now, uploads, gcs_bucket>>

\* save_uploaded_file returns its dict (upload_to_gcs keeps its failures).
SaveReturns(r) ==
    /\ req[r].at = "saved"
    /\ gcs_bucket => uploads[req[r].wrote] # 0
    /\ req' = [req EXCEPT ![r].at = "process",
                          ![r].file_info = [local_path |-> req[r].wrote]]
    /\ UNCHANGED <<orchestration, now, uploads, gcs_bucket>>

\* What the orchestrator finds at processing_path.
Sees(r) ==
    IF req[r].file_info = NoFileInfo THEN "none"
    ELSE IF uploads[req[r].file_info.local_path] = 0 THEN "missing"
    ELSE IF uploads[req[r].file_info.local_path] = r THEN "own"
    ELSE "other"

\* Whether the bytes found carry a coordinate.
SeesCoordinate(r, seen) ==
    CASE seen = "own" -> req[r].gps
      [] seen = "other" -> req[uploads[req[r].file_info.local_path]].gps
      [] OTHER -> FALSE

\* A completed category workflow, as execute_*_agent_workflow returns it.
CompletedWorkflow(ag) ==
    LET location_info == [area |-> PyStr("BTM Layout"), lat |-> PyFloat(46699),
                          lon |-> PyFloat(279508)]
    IN  WorkflowSuccess(ag, [t |-> "str", fence |-> FALSE, kind |-> "object", obj |-> EmptyDict],
                        NoOfficial, generate_email_content(ag, EmptyDict, location_info),
                        location_info.area, location_info.lat, location_info.lon)

\* What execute_<ag>_agent_workflow can return for the bytes it finds.
WorkflowResults(ag, coordinate) ==
    {WorkflowFailed(ag, "ValueError")}
    \cup IF coordinate THEN {CompletedWorkflow(ag)} ELSE {GeolocationFailure(ag)}

\* What process_request can return.
ProcessResults(has_image, coordinate) ==
    {OrchestrationFailed("ClientError"), TrafficResult("check_traffic"),
     EventsResponse(3, "events"),
     [success |-> TRUE, agent_type |-> "general", response |-> "Namaskara! How can I help?"]}
    \cup IF has_image
         THEN UNION {WorkflowResults(ag, coordinate) : ag \in Agents}
         ELSE {ImageRequiredResult(l) : l \in ReportLabels}

ResultsFor(endpoint, seen, coordinate) ==
    IF endpoint = "analyze"
    THEN ProcessResults(seen # "none", coordinate)
    ELSE WorkflowResults(endpoint, coordinate)

\* orchestrator.process_request / execute_<category>_agent_workflow.
Orchestrate(r) ==
    /\ req[r].at = "process"
    /\ \E res \in ResultsFor(req[r].endpoint, Sees(r), SeesCoordinate(r, Sees(r))) :
          req' = [req EXCEPT ![r].at = "format", ![r].saw = Sees(r), ![r].result = res]
    /\ UNCHANGED <<orchestration, now, uploads, gcs_bucket>>

\* format_api_response answering 200 whenever the result carries a
\* message for the user, the traffic stub's included.
format_api_response_ByMessage(res) ==
    IF ("success" \in DOMAIN res /\ res.success) \/ "message" \in DOMAIN res THEN 200 ELSE 400

\* format_api_response: the status code of a result.
format_api_response(res) ==
    IF "success" \in DOMAIN res /\ res.success THEN 200 ELSE 400

FormatResponds(r) ==
    /\ req[r].at = "format"
    /\ Respond(r, format_api_response(req[r].result),
               IF format_api_response(req[r].result) = 200 THEN ""
               ELSE DictGet(req[r].result, "error", Error("Unknown error", NoExc)).msg)
    /\ UNCHANGED <<orchestration, now, uploads, gcs_bucket>>

\* jsonify raises on a value it cannot serialise: except Exception, 500.
FormatRaises(r) ==
    /\ req[r].at = "format"
    /\ Respond(r, 500, "Internal server error: ")
    /\ UNCHANGED <<orchestration, now, uploads, gcs_bucket>>

\* cleanup_uploaded_file called at the end of the try block instead of in
\* the finally clause: skipped when an except clause answered.
Cleanup_NotInFinally(r) ==
    /\ req[r].at = "finally"
    /\ uploads' = IF /\ req[r].file_info # NoFileInfo
                     /\ uploads[req[r].file_info.local_path] # 0
                     /\ req[r].status # 500
                  THEN [uploads EXCEPT ![req[r].file_info.local_path] = 0]
                  ELSE uploads
    /\ req' = [req EXCEPT ![r].at = "done"]
    /\ UNCHANGED <<orchestration, now, gcs_bucket>>

\* finally: cleanup_uploaded_file(file_info).
Cleanup(r) ==
    /\ req[r].at = "finally"
    /\ uploads' = IF req[r].file_info # NoFileInfo /\ uploads[req[r].file_info.local_path] # 0
                  THEN [uploads EXCEPT ![req[r].file_info.local_path] = 0]
                  ELSE uploads
    /\ req' = [req EXCEPT ![r].at = "done"]
    /\ UNCHANGED <<orchestration, now, gcs_bucket>>

Serve(r) ==
    \/ EntityTooLarge(r)
    \/ ValidateRejects(r)
    \/ ValidateNoImage(r)
    \/ ValidatePasses(r)
    \/ SaveRejects(r)
    \/ SaveWrites(r)
    \/ SaveOpenFails(r)
    \/ SaveReturns(r)
    \/ Orchestrate(r)
    \/ FormatResponds(r)
    \/ FormatRaises(r)
    \/ Cleanup(r)

NextHttp ==
    \/ Tick
    \/ \E r \in Requests : Serve(r)

SpecHttp == InitHttp /\ [][NextHttp]_vars

\* ------------------------------------------------------------------------
\* The Email Drafter on its own, called twice on the same arguments while
\* the clock of the process moves on
\* ------------------------------------------------------------------------
DraftAreas == {PyNone, PyStr("BTM Layout")}

InitDraft ==
    /\ user_query \in Queries
    /\ image_path = UploadPath
    /\ file = NoFile
    /\ pc = "draft_ready"
    /\ classifier = "pending"
    /\ intent = ""
    /\ agent \in Agents
    /\ officials_data = NoRoster
    /\ lat = PyFloat(46699)
    /\ lon = PyFloat(279508)
    /\ area \in DraftAreas
    /\ geocoded = PyNone
    /\ analysis_json_str = NoText
    /\ analysis \in {[exc |-> NoExc, t |-> "dict", obj |-> o] : o \in AnalysisObjects(agent)}
    /\ ward_name = PyNone
    /\ official_info = NoOfficial
    /\ calls = <<>>
    /\ result = Pending
    /\ caught = NoExc
    /\ raised = NoExc
    /\ now = 0
    /\ uploads = [p \in Paths |-> 0]
    /\ gcs_bucket = FALSE
    /\ req = [r \in Requests |-> NoRequest]

\* generate_email_content(analysis, location_info), first call.
DraftFirst ==
    /\ pc = "draft_ready"
    /\ LET location_info == [area |-> area, lat |-> lat, lon |-> lon]
       IN  result' = [first |-> generate_email_content(agent, analysis.obj, location_info)]
    /\ pc' = "drafted_once"
    /\ calls' = Append(calls, "generate_email_content")
    /\ UNCHANGED <<server, inputs, classifier, geocoded, locals, intent, agent, caught, raised>>

\* A second call whose subject carries the time of the call.
DraftAgain_Stamped ==
    /\ pc = "drafted_once"
    /\ LET location_info == [area |-> area, lat |-> lat, lon |-> lon]
           email == generate_email_content(agent, analysis.obj, location_info)
       IN  result' = [first |-> result.first,
                      second |-> [email EXCEPT !.subject = @ \o " " \o ToString(now)]]
    /\ pc' = "drafted_twice"
    /\ calls' = Append(calls, "generate_email_content")
    /\ UNCHANGED <<server, inputs, classifier, geocoded, locals, intent, agent, caught, raised>>

\* generate_email_content(analysis, location_info), second call.
DraftAgain ==
    /\ pc = "drafted_once"
    /\ LET location_info == [area |-> area, lat |-> lat, lon |-> lon]
       IN  result' = [first |-> result.first,
                      second |-> generate_email_content(agent, analysis.obj, location_info)]
    /\ pc' = "drafted_twice"
    /\ calls' = Append(calls, "generate_email_content")
    /\ UNCHANGED <<server, inputs, classifier, geocoded, locals, intent, agent, caught, raised>>

NextDraft ==
    \/ DraftFirst
    \/ DraftAgain
    \/ Tick

SpecDraft == InitDraft /\ [][NextDraft]_vars

\* process_request is straight-line code around calls that return or
\* raise: a step that can be taken is taken.
\* Whether a request finishes does not depend on which coordinate the
\* image carries: one file of each kind the extractor tells apart.
TerminationFiles ==
    {f \in ImageFiles :
        \/ f.gps = EmptyDict
        \/ f.gps = Tag("GPSLatitude", <<1>>, <<12, 58, 19>>) @@ Tag("GPSLongitude", <<1>>, <<77, 38, 28>>)
                     @@ Tag("GPSLatitudeRef", <<1>>, "N") @@ Tag("GPSLongitudeRef", <<1>>, "E")
        \/ f.gps = Tag("GPSLatitude", <<1>>, <<12>>) @@ Tag("GPSLongitude", <<1>>, <<77, 38, 28>>)}

InitTermination == Init /\ file \in TerminationFiles

FairSpec == InitTermination /\ [][Next]_vars /\ WF_vars(Next)

\* ------------------------------------------------------------------------
\* Properties
\* ------------------------------------------------------------------------
Called(name) == \E i \in 1..Len(calls) : calls[i] = name

Count(name) == Cardinality({i \in 1..Len(calls) : calls[i] = name})

\* The steps of a category pipeline, roster load included.
PipelineSteps ==
    {"configure_and_load_data", "get_geolocation", "get_area_from_latlon",
     "get_analysis_from_gemini", "find_official", "generate_email_content"}

WorkflowCalls == {"execute_" \o a \o "_agent_workflow" : a \in Agents}

Done == pc = "done"

Failed == Done /\ "success" \in DOMAIN result /\ result.success = FALSE

Succeeded == Done /\ "success" \in DOMAIN result /\ result.success = TRUE

\* The analyzer handed back text that is not JSON, with a coordinate present.
ProseReply ==
    /\ agent \in Agents
    /\ HasCoordinate(lat, lon)
    /\ analysis_json_str.t = "str"
    /\ analysis_json_str.kind = "prose"

\* C1: in every category, when a coordinate is present and the analyzer's
\* text does not parse as JSON, the workflow returns success=true and the
\* email is drafted from the field defaults (an assessment with no fields).
C1_ProseStillSucceeds ==
    (Done /\ ProseReply) =>
        /\ Succeeded
        /\ result.email_content =
              generate_email_content(agent, EmptyDict, [area |-> area, lat |-> lat, lon |-> lon])

\* C2: a report label without an image ends in a failure carrying the
\* image-required error, and no step of a category pipeline is ever made.
C2_NoImageNoPipeline ==
    (classifier # "pending" /\ intent \in ReportLabels /\ ~Truthy(image_path)) =>
        /\ agent = ""
        /\ \A i \in 1..Len(calls) : calls[i] \notin PipelineSteps \cup WorkflowCalls
        /\ Done => /\ Failed
                   /\ result.error.msg = ImageRequiredMessage(intent)

C2_Witness ==
    /\ Done
    /\ intent = "report_pothole"
    /\ image_path = PyStr("")
    /\ Failed
    /\ result.error.msg = "Image required for pothole reporting"

\* C3: in every category, once the Geolocation Extractor has yielded no
\* coordinate, the Area Resolver, the Issue Analyzer (so no generation
\* request beyond the classifier's), the lookup and the Email Drafter are
\* never called, and the workflow returns success=false with the
\* geolocation error.
C3_NoCoordinateShortCircuits ==
    (agent \in Agents /\ Called("get_geolocation") /\ <<lat, lon>> = NoCoordinate) =>
        /\ ~Called("get_area_from_latlon")
        /\ ~Called("get_analysis_from_gemini")
        /\ ~Called("find_official")
        /\ ~Called("generate_email_content")
        /\ Count("generate_content") = 1
        /\ Done => /\ Failed
                   /\ result.agent_type = agent
                   /\ result.error.msg = GeolocationMessage

C3_Witness ==
    /\ Done
    /\ agent = "trash"
    /\ Called("get_geolocation")
    /\ file.openable /\ ~file.exif
    /\ <<lat, lon>> = NoCoordinate
    /\ Failed
    /\ result.error.msg = GeolocationMessage

\* C4: whenever the Geolocation Extractor returned a coordinate (any pair
\* other than (None, None), a zero latitude or longitude included), the
\* pipeline has run the Area Resolver and the Issue Analyzer by the time it
\* returns.
C4_EveryCoordinateProceeds ==
    (Done /\ agent \in Agents /\ Called("get_geolocation") /\ <<lat, lon>> # NoCoordinate) =>
        /\ Called("get_area_from_latlon")
        /\ Called("get_analysis_from_gemini")

\* C5: every successful result of a category pipeline carries a latitude
\* and a longitude that are not None.
C5_SuccessCarriesCoordinate ==
    (Succeeded /\ result.agent_type \in Agents) =>
        /\ result.lat # PyNone
        /\ result.lon # PyNone

C5_Witness ==
    /\ Succeeded
    /\ result.agent_type = "electricity"
    /\ result.lat = PyFloat(-(12 * 3600 + 58 * 60 + 19))
    /\ result.lon = PyFloat(-(77 * 3600 + 38 * 60 + 28))

C7_ClassifierFailureGivesGeneral ==
    (classifier \in {"call_failed", "client_failed"}) =>
        /\ intent = "general_question"
        /\ Done => Called("handle_general_question")

Handlers ==
    WorkflowCalls \cup {"execute_events_agent_workflow", "handle_general_question",
                        "traffic_stub", "image_required"}

\* C8: once a label has been dispatched, exactly one handler has been
\* invoked; a category workflow only for exactly its own report label with
\* an image present; every label outside the five routed ones, unrecognized
\* strings included, goes to the general fallback.
C8_DispatchExclusiveTotal ==
    (classifier \in {"returned", "call_failed"} /\ pc # "classified") =>
        /\ Cardinality({i \in 1..Len(calls) : calls[i] \in Handlers}) = 1
        /\ \A a \in Agents :
              Called("execute_" \o a \o "_agent_workflow") =>
                  intent = "report_" \o a /\ Truthy(image_path)
        /\ intent \notin ReportLabels \cup {"find_events", "check_traffic"} =>
              Called("handle_general_question")

C8_Witness ==
    /\ Done
    /\ intent = "report_trash."
    /\ image_path = UploadPath
    /\ Called("handle_general_question")
    /\ Count("execute_trash_agent_workflow") = 0
    /\ Succeeded
    /\ result.agent_type = "general"

\* C9: a find_events label is dispatched to the events workflow and never
\* to an image pipeline, with or without an image; no roster load,
\* geolocation, area, analyzer, lookup or email step is made.
C9_EventsNeverImagePipeline ==
    (classifier = "returned" /\ intent = "find_events" /\ pc # "classified") =>
        /\ Called("execute_events_agent_workflow")
        /\ agent = ""
        /\ \A i \in 1..Len(calls) : calls[i] \notin PipelineSteps \cup WorkflowCalls
        /\ Done => result.agent_type = "events"

C9_Witness ==
    /\ Done
    /\ intent = "find_events"
    /\ image_path = UploadPath
    /\ file.openable
    /\ Succeeded
    /\ result.agent_type = "events"

\* C10: a check_traffic label always yields the same "under development"
\* stub, whatever the query and the image, and no generation request is
\* made after the classifier's.
C10_TrafficStub ==
    (Done /\ classifier = "returned" /\ intent = "check_traffic") =>
        /\ result = [success |-> FALSE, agent_type |-> "traffic",
                     error |-> Error("Traffic Agent is currently under development", NoExc),
                     message |-> "Coming soon: Real-time traffic updates, route optimization, and road conditions!",
                     intent |-> "check_traffic"]
        /\ Count("generate_content") = 1
        /\ Count("genai.Client") = 1

C10_Witness ==
    /\ Done
    /\ intent = "check_traffic"
    /\ image_path = UploadPath
    /\ user_query = "what events are happening this weekend"
    /\ Failed
    /\ result.agent_type = "traffic"

\* C11: when the Issue Analyzer hands back its error value (image unreadable
\* or generation call raised), the lookup and the Email Drafter are never
\* run, no exception leaves the request, and the workflow returns
\* success=false with an error text.
C11_AnalyzerErrorShortCircuits ==
    (agent \in Agents /\ analysis_json_str.t = "dict") =>
        /\ ~Called("find_official")
        /\ ~Called("generate_email_content")
        /\ raised = NoExc
        /\ pc \in {"wf_parse", "done"}
        /\ Done => /\ Failed
                   /\ result.agent_type = agent
                   /\ result.error = Error("Workflow execution failed: ", "TypeError")

C11_Witness ==
    /\ Done
    /\ agent = "pothole"
    /\ analysis_json_str = ErrorDict("Could not open image: ")
    /\ Failed
    /\ caught = "TypeError"

\* The analyzer's text parsed as a JSON object.
ParsedObject ==
    /\ analysis_json_str.t = "str"
    /\ json_loads(analysis_json_str).exc = NoExc
    /\ json_loads(analysis_json_str).t = "dict"

\* C12: in all three categories, with a coordinate present and the Area
\* Resolver returning null, every analyzer reply that parses as a JSON
\* object still leads through the lookup and the Email Drafter to
\* success=true.  (Stated for the replies whose locator is a string or
\* absent; a reply with a null locator is left aside.)
C12_GeocodingFailureNeverAborts ==
    (Done /\ agent \in Agents /\ Called("get_area_from_latlon") /\ geocoded = PyNone
          /\ ParsedObject
          /\ DictGet(analysis_json_str.obj, LocatorKey(agent), PyStr("")).t = "str") =>
        /\ Called("find_official")
        /\ Called("generate_email_content")
        /\ Succeeded

\* The lookup has run and returned None (no row matched).
LookupFoundNothing ==
    /\ agent \in Agents
    /\ Called("find_official")
    /\ find_official(agent, officials_data, ward_name).exc = NoExc
    /\ ~find_official(agent, officials_data, ward_name).found

\* C13: a lookup that matches no roster row is not fatal: the pipeline
\* still drafts the email and returns success=true with official_info null.
C13_NoMatchNotFatal ==
    (Done /\ LookupFoundNothing) =>
        /\ Called("generate_email_content")
        /\ Succeeded
        /\ result.official_info = PyNone

\* The directory's stated matching rule: the row carries the department tag
\* of the category and its area contains the locator, ignoring case, as a
\* plain substring.
DepartmentTag(ag) == IF ag = "electricity" THEN BescomTag ELSE BbmpTag

LiteralMatch(ag, row, name) ==
    /\ row.department = DepartmentTag(ag)
    /\ row.area.t = "str"
    /\ name.t = "str"
    /\ Occurs(LowerSeq(Chars(row.area.v)), LowerSeq(Chars(name.v)))

HasPhone(row) == row.phone # NaN /\ row.phone # PyStr("")

\* The rows a lookup may return: matching rows, with the phone condition
\* where the lookup of the category has one.
Candidates(ag, df, name) ==
    {i \in 1..Len(df) : /\ LiteralMatch(ag, df[i], name)
                        /\ ag = "electricity" => HasPhone(df[i])}

LookupDone == pc = "lookup_done"

\* C14: for every roster and every locator name the lookup does not raise;
\* it returns None when no row matches and the first matching row in roster
\* order when one or several match.
C14_LookupTotalAndFirst ==
    LookupDone =>
        /\ raised = NoExc
        /\ Candidates(agent, officials_data, ward_name) = {} => ~official_info.found
        /\ Candidates(agent, officials_data, ward_name) # {} =>
              /\ official_info.found
              /\ \E i \in Candidates(agent, officials_data, ward_name) :
                    /\ \A k \in Candidates(agent, officials_data, ward_name) : i <= k
                    /\ official_info.row = officials_data[i]

\* C15: a row is returned only if its department is exactly the tag of the
\* category and its area contains the locator name as a case-insensitive
\* substring.
C15_ReturnedRowMatches ==
    (LookupDone /\ official_info.found) =>
        LiteralMatch(agent, official_info.row, ward_name)

\* The rows the department and area conditions of the code keep.
AreaRows(ag, df, name) ==
    {i \in 1..Len(df) : /\ df[i].department = DepartmentTag(ag)
                        /\ AreaContains(df[i], name.v)}

\* C16 as stated: a row of the trash/pothole roster with a missing or empty
\* phone is never returned as the matching official.
C16_WardLookupRequiresPhone ==
    (LookupDone /\ agent \in {"trash", "pothole"} /\ official_info.found) =>
        HasPhone(official_info.row)

\* C16 amended: the phone condition is the electricity lookup's.  A row
\* with a missing or empty phone is never returned by the lookup over the
\* electricity roster; the trash/pothole lookup has no phone condition and
\* returns the first row of its department whose area matches, phone or not.
C16_DivisionLookupRequiresPhone ==
    (LookupDone /\ raised = NoExc) =>
        /\ (agent = "electricity" /\ official_info.found) => HasPhone(official_info.row)
        /\ (agent = "electricity" /\ ~official_info.found) =>
              \A i \in AreaRows(agent, officials_data, ward_name) : ~HasPhone(officials_data[i])
        /\ agent \in {"trash", "pothole"} =>
              /\ official_info.found <=> AreaRows(agent, officials_data, ward_name) # {}
              /\ official_info.found =>
                    \E i \in AreaRows(agent, officials_data, ward_name) :
                        /\ \A k \in AreaRows(agent, officials_data, ward_name) : i <= k
                        /\ official_info.row = officials_data[i]

\* An electricity lookup that passes over a row of the right department and
\* area because its phone is empty, and returns the next one.
C16_Witness ==
    /\ LookupDone
    /\ agent = "electricity"
    /\ raised = NoExc
    /\ official_info.found
    /\ \E i \in AreaRows(agent, officials_data, ward_name) :
          /\ ~HasPhone(officials_data[i])
          /\ official_info.row # officials_data[i]
          /\ \A k \in AreaRows(agent, officials_data, ward_name) : i <= k

\* The draft the pipeline returned, and the lines of its body.
Drafted == Done /\ agent \in Agents /\ Called("generate_email_content")

HasLine(draft, line) == \E i \in 1..Len(draft.body.lines) : draft.body.lines[i] = line

TypeLabel(ag) ==
    CASE ag = "trash" -> "- Type of Waste: Mixed waste"
      [] ag = "pothole" -> "- Number of Potholes: N/A"
      [] ag = "electricity" -> "- Type of Issue: Electrical Issue"

DescriptionLabel(ag) ==
    CASE ag = "trash" -> "- Description: Trash issue reported by citizen"
      [] ag = "pothole" -> "- Description: Pothole reported by citizen"
      [] ag = "electricity" -> "- Description: Electrical issue reported by citizen"

\* The body shows the default placeholder of every field of the assessment.
ShowsPlaceholders(ag, draft) ==
    /\ HasLine(draft, TypeLabel(ag))
    /\ HasLine(draft, "- Severity Level: N/A")
    /\ HasLine(draft, DescriptionLabel(ag))

DetailsAbsent(o) ==
    /\ "severity" \notin DOMAIN o
    /\ "situation_description" \notin DOMAIN o
    /\ TypeKey(agent) \notin DOMAIN o

\* C17 as stated: for every category, the draft made from an assessment
\* with every field absent renders each absent field as its default
\* placeholder.
C17_AllAbsentShowsPlaceholders ==
    (Drafted /\ analysis.obj = EmptyDict) =>
        /\ Succeeded
        /\ ShowsPlaceholders(agent, result.email_content)

\* C17 amended: the drafter never raises on missing fields and returns
\* recipient, subject and body.  An absent field is rendered as its default
\* placeholder wherever the chosen template renders it: always for trash,
\* and for pothole/electricity when the presence signal is true.  With the
\* presence signal absent (so with every field absent) the pothole and
\* electricity drafts are the inspection request, which renders no field of
\* the assessment.
C17_MissingFieldsDefaulted ==
    Drafted =>
        /\ Succeeded
        /\ raised = NoExc
        /\ DOMAIN result.email_content = {"subject", "body", "to"}
        /\ (agent = "trash" /\ DetailsAbsent(analysis.obj)) =>
              /\ ShowsPlaceholders(agent, result.email_content)
              /\ result.email_content.subject =
                    "Garbage/Waste Management Issue - " \o Str(area) \o " (Severity: N/A)"
        /\ (agent # "trash" /\ PresenceKey(agent) \notin DOMAIN analysis.obj) =>
              /\ result.email_content.body.template = "review"
              /\ result.email_content.body.lines = LocationLines(area, lat, lon)
        /\ (agent # "trash" /\ PresenceKey(agent) \in DOMAIN analysis.obj
                /\ Truthy(analysis.obj[PresenceKey(agent)])
                /\ DetailsAbsent(analysis.obj)) =>
              /\ ShowsPlaceholders(agent, result.email_content)
              /\ result.email_content.subject =
                    IF agent = "pothole"
                    THEN "URGENT: Pothole Report - " \o Str(area) \o " (Severity: N/A)"
                    ELSE "URGENT: Electrical Issue Issue - " \o Str(area) \o " (Severity: N/A)"

\* A trash draft made from an assessment with every field absent.
C17_Witness ==
    /\ Drafted
    /\ Succeeded
    /\ agent = "trash"
    /\ analysis.obj = EmptyDict
    /\ HasLine(result.email_content, "- Type of Waste: Mixed waste")

\* C18: a draft made for a location whose area the Area Resolver could not
\* name shows the placeholder Unknown Area, and drafting does not crash.
C18_NullAreaShowsPlaceholder ==
    (Drafted /\ Called("get_area_from_latlon") /\ geocoded = PyNone /\ area = PyNone) =>
        /\ Succeeded
        /\ HasLine(result.email_content, "- Area: Unknown Area")

\* The presence signal of the assessment the draft was made from.
IssueDetected == Truthy(DictGet(analysis.obj, PresenceKey(agent), PyBool(FALSE)))

Severity == Str(DictGet(analysis.obj, "severity", PyStr("N/A")))

\* The subject of the urgent report of a category: URGENT, then type (for
\* electricity), area and severity.
UrgentSubject(ag) ==
    IF ag = "electricity"
    THEN "URGENT: " \o Str(DictGet(analysis.obj, "issue_type", PyStr("Electrical Issue")))
             \o " Issue - " \o Str(area) \o " (Severity: " \o Severity \o ")"
    ELSE "URGENT: Pothole Report - " \o Str(area) \o " (Severity: " \o Severity \o ")"

TwoBranches(ag) ==
    /\ ~IssueDetected => result.email_content.body.template = "review"
    /\ IssueDetected => /\ result.email_content.body.template = "urgent"
                        /\ result.email_content.subject = UrgentSubject(ag)

\* C19 as stated: for every category the draft is the inspection request
\* when no issue was detected and the urgent report, subject starting with
\* URGENT, when one was.
C19_TwoBranchesEveryCategory ==
    (Drafted /\ Succeeded) => TwoBranches(agent)

\* C19 amended: the pothole and electricity drafters have the two branches
\* (Scenario A: issue_present true, issue_type Street Light, severity Medium
\* gives the subject URGENT: Street Light Issue - <area> (Severity: Medium));
\* the trash drafter has one template, whatever the presence signal, and
\* its subject never starts with URGENT.
C19_TwoBranchesPotholeElectricity ==
    (Drafted /\ Succeeded) =>
        /\ agent \in {"pothole", "electricity"} => TwoBranches(agent)
        /\ (agent = "electricity" /\ IssueDetected
                /\ DictGet(analysis.obj, "issue_type", PyNone) = PyStr("Street Light")) =>
              result.email_content.subject =
                  "URGENT: Street Light Issue - " \o Str(area) \o " (Severity: Medium)"
        /\ agent = "trash" =>
              /\ result.email_content.body.template = "report"
              /\ result.email_content.subject =
                    "Garbage/Waste Management Issue - " \o Str(area)
                        \o " (Severity: " \o Severity \o ")"

\* Scenario A: an electricity report with a street light issue detected.
C19_Witness ==
    /\ Drafted
    /\ Succeeded
    /\ agent = "electricity"
    /\ IssueDetected
    /\ DictGet(analysis.obj, "issue_type", PyNone) = PyStr("Street Light")
    /\ result.email_content.subject = "URGENT: Street Light Issue - BTM Layout (Severity: Medium)"

\* Calls of the functions that talk to the generation service, by their
\* position in the log, and the requests each of them sent.
GenerationCalls(name) == {i \in 1..Len(calls) : calls[i] = name}

SentBy(i) ==
    Cardinality({j \in (i + 1)..Len(calls) :
                    /\ calls[j] = "generate_content"
                    /\ \A k \in (i + 1)..j : calls[k] \in {"genai.Client", "generate_content"}})

\* C20 as stated: every classifier call and every analyzer call sends
\* exactly one request, and one process_request sends at most two.
C20_ExactlyOneRequestPerCall ==
    /\ \A i \in GenerationCalls("get_user_intent") : SentBy(i) = 1
    /\ \A i \in GenerationCalls("get_analysis_from_gemini") : SentBy(i) = 1
    /\ Count("generate_content") <= 2

\* C20 amended: every classifier, analyzer and general-answer call sends
\* at most one request and never a second one after a failure; it sends
\* none only when building the client failed or, for the analyzer, when
\* the image could not be read.  One process_request calls the classifier
\* once and then at most one of analyzer and general answer, so it sends at
\* most two requests.
C20_AtMostOneRequestNoRetry ==
    /\ \A i \in GenerationCalls("get_user_intent") :
          /\ SentBy(i) <= 1
          /\ SentBy(i) = 0 <=> classifier = "client_failed"
    /\ \A i \in GenerationCalls("get_analysis_from_gemini") :
          /\ SentBy(i) <= 1
          /\ SentBy(i) = 0 <=>
                \/ Done /\ caught = "ClientError"
                \/ analysis_json_str = ErrorDict("Could not open image: ")
    /\ \A i \in GenerationCalls("handle_general_question") : SentBy(i) <= 1
    /\ Count("get_user_intent") <= 1
    /\ Count("get_analysis_from_gemini") + Count("handle_general_question") <= 1
    /\ Count("generate_content") <= 2

\* A request whose analyzer call failed after the classifier answered: two
\* requests in all, none repeated.
C20_Witness ==
    /\ Done
    /\ analysis_json_str = ErrorDict("Exception during Gemini API call: ")
    /\ Count("generate_content") = 2
    /\ \A i \in GenerationCalls("get_analysis_from_gemini") : SentBy(i) = 1

\* The texts the failure records of the orchestrator start with.
FailureMessages ==
    {GeolocationMessage,
     "Traffic Agent is currently under development",
     "Workflow execution failed: ",
     "Orchestration failed: ",
     "Failed to generate response: "}
    \cup {ImageRequiredMessage(l) : l \in ReportLabels}
    \cup {ModuleNotFound(a).error.msg : a \in Agents \cup {"events"}}

\* C21: every result with success = false is a record that carries an
\* error entry holding a message.
C21_FailureCarriesError ==
    Failed =>
        /\ raised = NoExc
        /\ "error" \in DOMAIN result
        /\ result.error.msg \in FailureMessages
        /\ result.error.msg # ""

\* The catch-all of process_request answering for a failed client
\* construction.
C21_Witness ==
    /\ Failed
    /\ caught = "ClientError"
    /\ "intent" \in DOMAIN result
    /\ result.intent = "unknown"
    /\ "error" \in DOMAIN result
    /\ result.error.msg = "Orchestration failed: "

\* What a request would get from the orchestrator if it were served alone:
\* the results for its own upload.
AloneResults(r) ==
    ResultsFor(req[r].endpoint,
               IF req[r].wrote = PyNone THEN "none" ELSE "own",
               req[r].wrote # PyNone /\ req[r].gps)

\* C22: under any interleaving of two requests each request's outcome is
\* what it would be alone; between a request's save and the end of its
\* processing the file it saved is there and holds its own upload.
C22_RequestsDoNotInteract ==
    \A r \in Requests :
        /\ (req[r].at \in {"saved", "process"} /\ req[r].wrote # PyNone) =>
              uploads[req[r].wrote] = r
        /\ req[r].saw \in {"unread", "none", "own"}
        /\ req[r].result # NoResult => req[r].result \in AloneResults(r)

\* The request's result went through format_api_response and jsonify.
Formatted(r) ==
    /\ req[r].at \in {"finally", "done"}
    /\ req[r].result # NoResult
    /\ req[r].error # "Internal server error: "

\* C26: the status of a formatted response is 200 when the result's
\* success flag is true and 400 when it is false, whatever else the result
\* holds; the traffic stub and the missing-image failure get 400.
C26_StatusFromSuccessFlag ==
    \A r \in Requests :
        Formatted(r) =>
            /\ "success" \in DOMAIN req[r].result
            /\ req[r].result.success => req[r].status = 200
            /\ ~req[r].result.success => req[r].status = 400
            /\ req[r].result \in {TrafficResult("check_traffic")}
                                    \cup {ImageRequiredResult(l) : l \in ReportLabels}
                  => req[r].status = 400

\* The traffic stub formatted.
C26_Witness ==
    \E r \in Requests :
        /\ Formatted(r)
        /\ req[r].result = TrafficResult("check_traffic")
        /\ req[r].status = 400

\* The request is over and had saved an upload.
FinishedAfterSave(r) == req[r].at = "done" /\ req[r].wrote # PyNone

LacksCoordinate(f) ==
    \/ ~f.openable
    \/ ~f.exif
    \/ "GPSLatitude" \notin DOMAIN f.gps
    \/ "GPSLongitude" \notin DOMAIN f.gps
    \/ Len(f.gps["GPSLatitude"]) < 3
    \/ Len(f.gps["GPSLongitude"]) < 3

Extracted == agent \in Agents /\ Called("get_geolocation")

\* C23: for an image that gives no coordinate the Geolocation Extractor
\* returns (None, None) and raises nothing: no exception reaches the
\* workflow, which ends with the geolocation failure.
C23_ExtractorNeverRaises ==
    (Extracted /\ LacksCoordinate(file)) =>
        /\ lat = PyNone
        /\ lon = PyNone
        /\ raised = NoExc
        /\ caught = NoExc
        /\ pc \in {"wf_located", "done"}
        /\ Done => result = GeolocationFailure(agent)

\* An image whose latitude tag is truncated, next to a whole longitude.
C23_Witness ==
    /\ Extracted
    /\ Done
    /\ file.exif
    /\ "GPSLatitude" \in DOMAIN file.gps
    /\ "GPSLongitude" \in DOMAIN file.gps
    /\ Len(file.gps["GPSLatitude"]) < 3
    /\ lat = PyNone
    /\ result = GeolocationFailure(agent)

\* The value of one axis in arc-seconds: 3600 * (deg + min/60 + sec/3600).
ArcSeconds(dms) == 3600 * dms[1] + 60 * dms[2] + dms[3]

\* C24: for whole degree/minute/second tags the extractor returns
\* deg + min/60 + sec/3600 for each axis, the latitude negated exactly when
\* its reference is S, the longitude exactly when its reference is W.
C24_DecimalDegreesAndSign ==
    (Extracted /\ ~LacksCoordinate(file)) =>
        /\ lat.t = "float"
        /\ lon.t = "float"
        /\ lat.n = IF DictGet(file.gps, "GPSLatitudeRef", "") = "S"
                   THEN 0 - ArcSeconds(file.gps["GPSLatitude"])
                   ELSE ArcSeconds(file.gps["GPSLatitude"])
        /\ lon.n = IF DictGet(file.gps, "GPSLongitudeRef", "") = "W"
                   THEN 0 - ArcSeconds(file.gps["GPSLongitude"])
                   ELSE ArcSeconds(file.gps["GPSLongitude"])

\* A southern latitude with an eastern longitude: 12 58 19 S, 77 38 28 E.
C24_Witness ==
    /\ Extracted
    /\ ~LacksCoordinate(file)
    /\ DictGet(file.gps, "GPSLatitudeRef", "") = "S"
    /\ DictGet(file.gps, "GPSLongitudeRef", "") = "E"
    /\ lat = PyFloat(0 - 46699)
    /\ lon = PyFloat(279508)

FiveSteps ==
    <<"get_geolocation", "get_area_from_latlon", "get_analysis_from_gemini",
      "find_official", "generate_email_content">>

\* Each step ran at most once, none before the one stated ahead of it.
StepsInOrder ==
    /\ \A k \in 1..Len(FiveSteps) : Count(FiveSteps[k]) <= 1
    /\ \A k \in 2..Len(FiveSteps) :
          \A j \in 1..Len(calls) :
              calls[j] = FiveSteps[k] => \E i \in 1..(j - 1) : calls[i] = FiveSteps[k - 1]

WorkflowEntered == agent \in Agents /\ \E w \in WorkflowCalls : Called(w)

\* C27 as stated: the five steps run in order, each at most once, and no
\* pipeline ends before its Geolocation Extractor has run.
C27_GeolocationIsFirstFailure ==
    /\ StepsInOrder
    /\ (WorkflowEntered /\ Done) => Called("get_geolocation")

\* C27 amended: the five steps run in order, each at most once, after the
\* import of the agent module and the roster load; a pipeline that ends
\* before its Geolocation Extractor ran failed in one of those two, with
\* the module-not-found or the workflow-failed record.
C27_OrderAfterRosterLoad ==
    /\ StepsInOrder
    /\ Count("configure_and_load_data") <= 1
    /\ \A j \in 1..Len(calls) :
          calls[j] = "get_geolocation" =>
              \E i \in 1..(j - 1) : calls[i] = "configure_and_load_data"
    /\ (WorkflowEntered /\ Done /\ ~Called("get_geolocation")) =>
          /\ caught \in {"ImportError", "ValueError", "FileNotFoundError"}
          /\ caught = "ImportError" =>
                result = ModuleNotFound(agent) /\ ~Called("configure_and_load_data")
          /\ caught # "ImportError" =>
                result = WorkflowFailed(agent, caught) /\ Called("configure_and_load_data")

\* A completed pipeline: roster load, then the five steps once each.
C27_Witness ==
    /\ Succeeded
    /\ agent = "electricity"
    /\ Len(calls) >= 8
    /\ SubSeq(calls, Len(calls) - 7, Len(calls)) =
          <<"configure_and_load_data", "get_geolocation", "get_area_from_latlon",
            "get_analysis_from_gemini", "genai.Client", "generate_content",
            "find_official", "generate_email_content">>

\* C28: after an Area Resolver that returned null the trash pipeline works
\* with HSR Layout and the pothole and electricity pipelines with null; the
\* lookup is handed the analyzer's ward/division name when the reply parsed
\* and has the key, and this area otherwise.
C28_AreaFallbackAndLocator ==
    /\ (agent \in Agents /\ Called("get_area_from_latlon")) =>
          /\ (geocoded = PyNone /\ agent = "trash") => area = PyStr("HSR Layout")
          /\ (geocoded = PyNone /\ agent # "trash") => area = PyNone
          /\ geocoded # PyNone => area = geocoded
          /\ Succeeded => result.area = area
    /\ (agent \in Agents /\ Called("find_official")) =>
          ward_name = IF ParsedObject /\ LocatorKey(agent) \in DOMAIN analysis_json_str.obj
                      THEN analysis_json_str.obj[LocatorKey(agent)]
                      ELSE area

\* A trash report whose geocoding failed and whose reply names no ward:
\* the lookup is made with the fallback area.
C28_Witness ==
    /\ agent = "trash"
    /\ Called("find_official")
    /\ geocoded = PyNone
    /\ area = PyStr("HSR Layout")
    /\ ParsedObject
    /\ LocatorKey(agent) \notin DOMAIN analysis_json_str.obj
    /\ ward_name = PyStr("HSR Layout")

\* How far a request has come: received, classified, dispatched, then the
\* steps of the handler it was dispatched to, then its final result.
Rank(at) ==
    CASE at = "received" -> 0
      [] at = "classified" -> 1
      [] at \in {"ev_load", "gen_client", "wf_import"} -> 2
      [] at = "wf_geo" -> 3
      [] at = "wf_located" -> 4
      [] at = "wf_analyze" -> 5
      [] at = "wf_parse" -> 6
      [] at = "wf_lookup" -> 7
      [] at = "wf_email" -> 8
      [] at = "done" -> 9

\* C29: every request reaches its final result, and does so in one pass:
\* each step takes it further, none takes it back or repeats.
C29_TerminatesInOnePass ==
    /\ <>Done
    /\ [][Rank(pc') > Rank(pc)]_vars

\* A request that went the longest way and has its result.
C29_Witness ==
    /\ Done
    /\ result # Pending
    /\ raised = NoExc
    /\ Called("get_user_intent")
    /\ Called("generate_email_content")
    /\ Len(calls) = 12

====
